---------------------------- MODULE Spec2Model ----------------------------
(***************************************************************************)
(* Job orchestration of the health-policy-mapper backend: the Job entity   *)
(* (domain/entities/job.py), the in-memory job store, the raw CSV          *)
(* checkpoint log and the JobLifecycle use case that drives documents      *)
(* through the LLM processor (application/use_cases/job_lifecycle.py,      *)
(* application/use_cases/llm_processor.py).                                *)
(*                                                                         *)
(* The specifications share the variables:                                 *)
(*   SpecClean       _clean_raw_csv_errors alone, applied to any log;      *)
(*   SpecJob         the Job entity alone, its methods called in any order *)
(*                   with any argument;                                    *)
(*   Spec            the JobLifecycle operations, one coroutine of a job   *)
(*                   at a time;                                            *)
(*   SpecConcurrent  the same operations called at any time: coroutines of *)
(*                   one event loop interleave at the await of the         *)
(*                   inference call;                                       *)
(*   SpecResult      the end of a run and get_job_result, for any log;     *)
(*   SpecColumn      the construction of a Column from any field name;     *)
(*   SpecSubmit      the create_job endpoint with any columns payload;     *)
(*   SpecAggregate   the aggregation of one policy column of any table;    *)
(*   SpecJustify     the justification column of the aggregate, for any    *)
(*                   table;                                                *)
(*   SpecExplode     the splitting of rows that name several countries;    *)
(*   SpecRecord      the record built for one document and one outcome;    *)
(*   SpecServer      the create, retry and resume endpoints with their     *)
(*                   background tasks (SpecServerFair: with fairness);     *)
(*   SpecJobs        the operations on two jobs at any time;               *)
(*   SpecQuery       a status query on a worker thread against the         *)
(*                   attribute writes of the handlers.                     *)
(***************************************************************************)
EXTENDS Naturals, Sequences, FiniteSets, TLC

VARIABLES
    store,   \* InMemoryJobRepository._store: job id -> the Job object
    csv,     \* raw_data_<job id>.csv of each job id: does it exist, its rows
    task,    \* the process_job / retry_failed_records coroutines
    budget,  \* how many more coroutines may call the inference capability
    last,    \* the call that ended last: its name, job and outcome
    interrupted, \* history: the rows of each job's log when its run was last
                 \* cancelled (None: not cancelled since creation or retry)
    prepared,    \* history: the error_count each job had when its retry was
                 \* last prepared (None: no retry prepared)
    mutation,    \* the attribute writes of the handler step under way on the
                 \* event loop thread (SpecQuery; elsewhere a step is atomic)
    query,       \* the status query under way on a worker thread (SpecQuery)
    background   \* the background tasks added to responses and not yet
                 \* started (SpecServer; elsewhere the caller starts them)

vars ==
    <<store, csv, task, budget, last, interrupted, prepared, mutation, query,
      background>>

---------------------------------------------------------------------------
(* Bounds of the model.                                                    *)

\* Records of a log given to _clean_raw_csv_errors in SpecClean.
MaxLogRows == 2

\* longest document list of a job
MaxFiles == 2
\* most process_job / retry_failed_records coroutines that get to call the
\* inference capability in one behaviour of Spec
MaxRuns == 3
\* most such coroutines in one behaviour of SpecConcurrent, where they may all
\* be suspended at the same time
MaxTasks == 2
\* most rows of a DataFrame handed to Job.complete in SpecJob
MaxResultRows == 2
\* largest counter value handed to update_progress / restart_for_retry in SpecJob
MaxProgress == 1

---------------------------------------------------------------------------
(* Values.                                                                 *)

\* JobStatus
PENDING == "pending"
RUNNING == "running"
FAILED == "failed"
DONE == "done"
DONE_WITH_ERRORS == "done_with_errors"

JobStatus == {PENDING, RUNNING, FAILED, DONE, DONE_WITH_ERRORS}

\* Python's None and an Optional value that is set.
None == <<>>
Some(x) == <<x>>

\* A text is a sequence of characters.  Two characters are enough to tell
\* apart the empty text, a whitespace-only text and an ordinary text.
Chars == {" ", "e"}

\* The missing value (NaN) of a DataFrame cell; no text equals it.
NaN == <<"NaN">>

\* Document names (Path.name of the uploaded PDF files).  A name is a text of
\* one unit, the whole file name.
DocName == <<"1.pdf", "2.pdf", "3.pdf", "4.pdf", "5.pdf">>
NameOf(n) == <<DocName[n]>>
Names == { NameOf(n) : n \in 1 .. MaxFiles }

\* Document lists up to renaming of documents (the names appear in order of
\* first occurrence); two documents of a list may share a name.
FileLists ==
    { [i \in 1 .. Len(ns) |-> NameOf(ns[i])] :
        ns \in { fs \in UNION { [1 .. n -> 1 .. MaxFiles] : n \in 0 .. MaxFiles } :
                    \A i \in 1 .. Len(fs) :
                        fs[i] <= 1 + Cardinality({ fs[k] : k \in 1 .. (i - 1) }) } }

\* Job ids (uuid4 values).
JobIds == {1}

\* The values the inference capability extracts for a field.
Vals == { <<"e">> }

\* str(e) of the exceptions the inference capability raises.
ErrMsgs == { <<>>, <<" ">>, <<"e">> }

Min(a, b) == IF a <= b THEN a ELSE b

---------------------------------------------------------------------------
(* Text and DataFrame helpers (Python / pandas semantics).                 *)

RECURSIVE lstrip(_)
lstrip(s) == IF s = <<>> THEN s
             ELSE IF Head(s) = " " THEN lstrip(Tail(s)) ELSE s

RECURSIVE rstrip(_)
rstrip(s) == IF s = <<>> THEN s
             ELSE IF s[Len(s)] = " " THEN rstrip(SubSeq(s, 1, Len(s) - 1)) ELSE s

\* str.strip()
strip(s) == rstrip(lstrip(s))

\* Series.notna()
notna(c) == c # NaN

\* Series.astype(str): NaN becomes the text "nan"
astype_str(c) == IF c = NaN THEN <<"n", "a", "n">> ELSE c

\* The mask  col.notna() & (col != '') & (col.astype(str).str.strip() != '')
\* of one cell.
error_mask(c) == notna(c) /\ c # <<>> /\ strip(astype_str(c)) # <<>>

\* A DataFrame: its columns and its rows (records over the columns).
DataFrame(cols, rows) == [columns |-> cols, rows |-> rows]

\* Mutant of has_errors: an error is any cell that is not missing and not ''.
has_errors_nostrip(result) ==
    IF result = None \/ result[1].rows = <<>> THEN FALSE
    ELSE IF "error" \in result[1].columns
         THEN \E i \in 1 .. Len(result[1].rows) :
                  LET c == result[1].rows[i].error IN notna(c) /\ c # <<>>
         ELSE FALSE

\* Job._has_errors; result is None or Some(DataFrame)
has_errors(result) ==
    IF result = None \/ result[1].rows = <<>> THEN FALSE
    ELSE IF "error" \in result[1].columns
         THEN \E i \in 1 .. Len(result[1].rows) :
                  error_mask(result[1].rows[i].error)
         ELSE FALSE

---------------------------------------------------------------------------
(* The Job entity.  Each method takes the job and gives the job after the  *)
(* call and whether the call raised ValueError.                            *)

\* Job.__init__
NewJob(files) ==
    [ files           |-> files,
      status          |-> PENDING,
      result          |-> None,
      error_message   |-> None,
      total_files     |-> Len(files),
      files_processed |-> 0,
      error_count     |-> 0 ]

Returned(jb) == [job |-> jb, raised |-> FALSE]
Raised(jb) == [job |-> jb, raised |-> TRUE]

\* Mutant of start: the status guard is missing.
start_unguarded(jb) == Returned([jb EXCEPT !.status = RUNNING])

\* Job.start
start(jb) ==
    IF jb.status # PENDING THEN Raised(jb)
    ELSE Returned([jb EXCEPT !.status = RUNNING])

\* Job.update_progress; error_count is None or Some(n)
update_progress(jb, files_processed, error_count) ==
    Returned([jb EXCEPT !.files_processed = files_processed,
                        !.error_count = IF error_count # None
                                        THEN error_count[1] ELSE @])

\* Mutant of complete: the result is not stored.
complete_noresult(jb, result) ==
    IF jb.status # RUNNING THEN Raised(jb)
    ELSE Returned([jb EXCEPT
                     !.status = IF has_errors(result)
                                THEN DONE_WITH_ERRORS ELSE DONE])

\* Job.complete
complete(jb, result) ==
    IF jb.status # RUNNING THEN Raised(jb)
    ELSE Returned([jb EXCEPT
                     !.status = IF has_errors(result)
                                THEN DONE_WITH_ERRORS ELSE DONE,
                     !.result = result])

\* Job.complete_with_errors
complete_with_errors(jb, result) ==
    IF jb.status # RUNNING THEN Raised(jb)
    ELSE Returned([jb EXCEPT !.status = DONE_WITH_ERRORS, !.result = result])

\* Mutant of fail: the message is not stored.
fail_nomessage(jb, message) ==
    IF jb.status # RUNNING THEN Raised(jb)
    ELSE Returned([jb EXCEPT !.status = FAILED])

\* Job.fail
fail(jb, message) ==
    IF jb.status # RUNNING THEN Raised(jb)
    ELSE Returned([jb EXCEPT !.status = FAILED,
                             !.error_message = Some(message)])

\* Mutant of restart_for_retry: files_processed is not set.
restart_for_retry_keeps_progress(jb, new_files_processed) ==
    IF jb.status # DONE_WITH_ERRORS THEN Raised(jb)
    ELSE Returned([jb EXCEPT !.status = RUNNING])

\* Mutant of restart_for_retry: a FAILED job may be restarted too.
restart_for_retry_failed_too(jb, new_files_processed) ==
    IF jb.status \notin {DONE_WITH_ERRORS, FAILED} THEN Raised(jb)
    ELSE Returned([jb EXCEPT !.status = RUNNING,
                             !.files_processed = new_files_processed])

\* Mutant of restart_for_retry: the status is left as it is.
restart_for_retry_stays_done(jb, new_files_processed) ==
    IF jb.status # DONE_WITH_ERRORS THEN Raised(jb)
    ELSE Returned([jb EXCEPT !.files_processed = new_files_processed])

\* Job.restart_for_retry
restart_for_retry(jb, new_files_processed) ==
    IF jb.status # DONE_WITH_ERRORS THEN Raised(jb)
    ELSE Returned([jb EXCEPT !.status = RUNNING,
                             !.files_processed = new_files_processed])

---------------------------------------------------------------------------
(* State shared by the specifications.                                     *)

NoCsv == [exists |-> FALSE, rows |-> <<>>]

Tasks == 1 .. MaxTasks

IdleTask ==
    [ pc |-> "idle", kind |-> "none", job |-> 1, resume |-> FALSE,
      files_to_process |-> <<>>, i |-> 0,
      processed_sources |-> {}, total_processed_files |-> {},
      error_files |-> {},
      baseline_files_processed |-> 0, baseline_error_count |-> 0 ]

\* The record kept of a call that has ended: cb is what row_callback did in
\* the step, llm what the inference call did, missing whether the call ended
\* on FileNotFoundError, arg the argument of the call (where a property needs
\* it), ret what the call returned.
Call(op, j, outcome) ==
    [ op |-> op, job |-> j, outcome |-> outcome, cb |-> "none",
      llm |-> "none", missing |-> FALSE, arg |-> None, ret |-> <<>> ]

\* No handler step is under way: nothing is left to write.
NoMutation ==
    [ job |-> 1, before |-> NewJob(<<>>), after |-> NewJob(<<>>),
      order |-> <<>>, pos |-> 0 ]

\* The attributes get_job_progress reads from the Job, in the order of the
\* dict it builds.
ProgressFields ==
    <<"status", "files_processed", "total_files", "error_count",
      "error_message">>

\* No status query is under way.  pc counts the attributes read so far (0:
\* none started), snap holds them, seen is the history of the snapshots of
\* the job before and after each handler step the query has overlapped.
NoQuery == [pc |-> 0, job |-> 1, snap |-> <<>>, seen |-> {}]

---------------------------------------------------------------------------
(* SpecJob: the Job entity on its own.                                     *)

\* The DataFrames handed to complete(): None, or up to MaxResultRows rows,
\* with or without an error column.
ErrCells == { NaN, <<>>, <<" ">>, <<" ", "e">> }

ResultRows(cols) ==
    IF "error" \in cols
    THEN [source_file : {NameOf(1)}, val : {<<"e">>}, error : ErrCells]
    ELSE [source_file : {NameOf(1)}, val : {<<"e">>}]

AllColumns == { {"source_file", "val"}, {"source_file", "val", "error"} }

ResultsUpTo(n) ==
    {None} \cup
    UNION { { Some(DataFrame(cols, rows)) :
                rows \in UNION { [1 .. k -> ResultRows(cols)] : k \in 0 .. n } } :
            cols \in AllColumns }

Results == ResultsUpTo(MaxResultRows)

InitJob ==
    /\ \E n \in 0 .. MaxFiles : store = (1 :> NewJob([i \in 1 .. n |-> NameOf(i)]))
    /\ csv = [j \in JobIds |-> NoCsv]
    /\ task = [t \in Tasks |-> IdleTask]
    /\ budget = 0
    /\ interrupted = [j \in JobIds |-> None]
    /\ prepared = [j \in JobIds |-> None]
    /\ mutation = NoMutation
    /\ query = NoQuery
    /\ background = <<>>
    /\ last = Call("__init__", 1, "returned")

\* Apply a method's outcome r to the job and record the call.
JobCall(op, r) ==
    /\ store' = [store EXCEPT ![1] = r.job]
    /\ last' = Call(op, 1, IF r.raised THEN "raised" ELSE "returned")
    /\ UNCHANGED <<csv, task, budget, interrupted, prepared, mutation, query, background>>

JobStart == JobCall("start", start(store[1]))

JobUpdateProgress ==
    \E n \in 0 .. MaxProgress,
       e \in {None} \cup { Some(k) : k \in 0 .. MaxProgress } :
        JobCall("update_progress", update_progress(store[1], n, e))

JobComplete ==
    \E result \in Results : JobCall("complete", complete(store[1], result))

JobCompleteWithErrors ==
    \E result \in ResultsUpTo(1) :
        JobCall("complete_with_errors", complete_with_errors(store[1], result))

JobFail == \E m \in ErrMsgs : JobCall("fail", fail(store[1], m))

JobRestartForRetry ==
    \E n \in 0 .. MaxProgress :
        LET r == restart_for_retry(store[1], n) IN
        /\ store' = [store EXCEPT ![1] = r.job]
        /\ last' = [ Call("restart_for_retry", 1,
                          IF r.raised THEN "raised" ELSE "returned")
                       EXCEPT !.arg = Some(n) ]
        /\ UNCHANGED <<csv, task, budget, interrupted, prepared, mutation, query, background>>

NextJob ==
    \/ JobStart
    \/ JobUpdateProgress
    \/ JobComplete
    \/ JobCompleteWithErrors
    \/ JobFail
    \/ JobRestartForRetry

SpecJob == InitJob /\ [][NextJob]_vars

---------------------------------------------------------------------------
(* The checkpoint log: raw_data_<job id>.csv, written by csv.DictWriter    *)
(* and pandas.to_csv, read by pandas.read_csv.                             *)

\* Longest error text kept in a record (err_msg[:1000]).
ErrorLimit == 1000

\* The header of the file: source_file, the job's field, error.
all_fieldnames == {"source_file", "val", "error"}

\* The text NA
NA == <<"N", "A">>

\* Texts pandas.read_csv reads as a missing value (its default na_values;
\* of the texts of this model '' and NA).
NaStrings == { <<>>, NA }

\* read_csv of one cell
parse_cell(c) == IF c \in NaStrings THEN NaN ELSE c

\* to_csv of one cell: a missing value is written as ''
to_csv_cell(c) == IF c = NaN THEN <<>> ELSE c

\* pd.read_csv(raw_csv_path)
read_csv(file) ==
    DataFrame(all_fieldnames,
              [i \in 1 .. Len(file.rows) |->
                  [ source_file |-> parse_cell(file.rows[i].source_file),
                    val         |-> parse_cell(file.rows[i].val),
                    error       |-> parse_cell(file.rows[i].error) ]])

\* df.to_csv(raw_csv_path, index=False)
to_csv(df) ==
    [ exists |-> TRUE,
      rows   |-> [i \in 1 .. Len(df.rows) |->
                    [ source_file |-> to_csv_cell(df.rows[i].source_file),
                      val         |-> to_csv_cell(df.rows[i].val),
                      error       |-> to_csv_cell(df.rows[i].error) ]] ]

Range(seq) == { seq[i] : i \in 1 .. Len(seq) }

\* JobLifecycle._get_processed_files
get_processed_files(file) ==
    IF ~file.exists THEN <<>>
    ELSE LET df == read_csv(file) IN
         [i \in 1 .. Len(df.rows) |-> astype_str(df.rows[i].source_file)]

\* JobLifecycle._clean_raw_csv_errors: the file afterwards
clean_raw_csv_errors(file) ==
    LET df == read_csv(file)
        Kept(r) == ~error_mask(r.error)
    IN  to_csv(DataFrame(df.columns, SelectSeq(df.rows, Kept)))

\* JobLifecycle._clean_raw_csv_errors: the set of error files it returns
error_files_removed(file) ==
    LET df == read_csv(file) IN
    { astype_str(df.rows[i].source_file) :
        i \in { k \in 1 .. Len(df.rows) : error_mask(df.rows[k].error) } }

\* Mutant of get_unprocessed_files: the processed files are not left out.
get_unprocessed_files_all(jb, processed_files, error_files) == jb.files

\* Mutant of get_unprocessed_files: the documents left come out last first.
get_unprocessed_files_reversed(jb, processed_files, error_files) ==
    LET processed_set == Range(processed_files)
        Wanted(name) == name \notin processed_set \/ name \in error_files
        left == SelectSeq(jb.files, Wanted)
    IN  [i \in 1 .. Len(left) |-> left[Len(left) + 1 - i]]

\* JobLifecycle._get_unprocessed_files
get_unprocessed_files(jb, processed_files, error_files) ==
    LET processed_set == Range(processed_files)
        Wanted(name) == name \notin processed_set \/ name \in error_files
    IN  SelectSeq(jb.files, Wanted)

---------------------------------------------------------------------------
(* The inference capability and LLMProcessor.run.                          *)

\* What one call of client.process can do: give a record of the job's field,
\* give a record with a key that is no field of the job, give no record,
\* or raise.
Outcomes ==
    [kind : {"ok", "extra"}, val : Vals, msg : {<<>>}]
    \cup [kind : {"empty"}, val : {<<>>}, msg : {<<"e">>}]
    \cup [kind : {"raise"}, val : {<<>>}, msg : ErrMsgs]

\* Mutant of build_record: the message of a failure is not truncated.
build_record_untruncated(file_name, o) ==
    IF o.kind \in {"ok", "extra"}
    THEN [ source_file |-> file_name, val |-> o.val,
           val_justification |-> o.val, error |-> <<>>,
           keys |-> all_fieldnames \cup
                    (IF o.kind = "extra" THEN {"other"} ELSE {}) ]
    ELSE [ source_file |-> file_name, val |-> <<>>,
           val_justification |-> <<>>, error |-> o.msg,
           keys |-> all_fieldnames ]

\* The record LLMProcessor.run builds for document file_name.  The item of
\* an outcome holds the same text for the field and for its justification.
build_record(file_name, o) ==
    IF o.kind \in {"ok", "extra"}
    THEN [ source_file |-> file_name, val |-> o.val,
           val_justification |-> o.val, error |-> <<>>,
           keys |-> all_fieldnames \cup
                    (IF o.kind = "extra" THEN {"other"} ELSE {}) ]
    ELSE [ source_file |-> file_name, val |-> <<>>,
           val_justification |-> <<>>,
           error |-> SubSeq(o.msg, 1, Min(Len(o.msg), ErrorLimit)),
           keys |-> all_fieldnames ]

\* The row csv.DictWriter writes for a record.
Row(record) ==
    [ source_file |-> record.source_file, val |-> record.val,
      error |-> record.error ]

\* row_callback of JobLifecycle._process_remaining_files, with
\* _update_job_progress: the file, the coroutine's sets and the job after
\* the call.  cb tells what the call did: "skipped" (the document is already
\* processed), "raised" (DictWriter refused the record; LLMProcessor logs the
\* exception and goes on) or "appended".
row_callback(file, tk, jb, record) ==
    LET src == astype_str(record.source_file) IN
    IF src \in tk.processed_sources \/ src \in tk.total_processed_files
    THEN [file |-> file, task |-> tk, job |-> jb, cb |-> "skipped"]
    ELSE IF ~(record.keys \subseteq all_fieldnames)
    THEN \* open() has created the file (and its header) before writerow raises
         [ file |-> [exists |-> TRUE, rows |-> file.rows],
           task |-> tk, job |-> jb, cb |-> "raised" ]
    ELSE LET seen == tk.total_processed_files \cup {src}
             errs == IF record.error # <<>> THEN tk.error_files \cup {src}
                     ELSE tk.error_files
         IN  [ file |-> [exists |-> TRUE,
                         rows |-> Append(file.rows, Row(record))],
               task |-> [tk EXCEPT !.total_processed_files = seen,
                                   !.error_files = errs],
               job  |-> update_progress(jb,
                            tk.baseline_files_processed + Cardinality(seen),
                            Some(tk.baseline_error_count + Cardinality(errs))).job,
               cb   |-> "appended" ]

---------------------------------------------------------------------------
(* JobLifecycle.  A coroutine runs without interruption up to its next     *)
(* await, the inference call of LLMProcessor.run.                          *)

\* str(e) of the exceptions the code itself raises (not blank).
CodeMsg == <<"e">>

\* Mutant of on_exception: the exception is logged and nothing else.
on_exception_logged_only(jb, msg) == Returned(jb)

\* except Exception as e: job.fail(str(e)).  fail() raising in its turn makes
\* the coroutine end with that exception.
on_exception(jb, msg) == fail(jb, msg)

\* job.complete(result=df_raw) inside the try block.
complete_in_try(jb, df) ==
    LET c == complete(jb, Some(df)) IN
    IF c.raised THEN on_exception(jb, CodeMsg) ELSE c

OpName(kind) == IF kind = "retry" THEN "retry_failed_records" ELSE "process_job"

Ended(kind, j, r, cb) ==
    [ Call(OpName(kind), j, IF r.raised THEN "raised" ELSE "returned")
        EXCEPT !.cb = cb ]

\* The coroutine slots not in use, and the one the next coroutine takes.
FreeSlots == { t \in Tasks : task[t].pc = "idle" }
FirstFreeSlot == CHOOSE t \in FreeSlots : \A u \in FreeSlots : t <= u

\* JobLifecycle.create_job
CreateJob(j, files) ==
    /\ j \notin DOMAIN store
    /\ store' = (j :> NewJob(files)) @@ store
    /\ last' = Call("create_job", j, "returned")
    /\ UNCHANGED <<csv, task, budget, interrupted, prepared, mutation, query>>

\* JobLifecycle._process_remaining_files up to the first await of
\* LLMProcessor.run, for the job jb as process_job / retry_failed_records
\* left it.  given is the files_to_process argument (None or Some(list)).
ProcessRemainingFiles(kind, j, jb, processed_sources, given, resume) ==
    LET files_to_process ==
            IF given = None
            THEN LET Left(name) == name \notin processed_sources
                 IN  SelectSeq(jb.files, Left)
            ELSE given[1]
    IN
    IF files_to_process = <<>>
    THEN \* no files to process: complete from the file, if there is one
         LET r == IF csv[j].exists THEN complete_in_try(jb, read_csv(csv[j]))
                  ELSE Returned(jb)
         IN  /\ store' = [store EXCEPT ![j] = r.job]
             /\ last' = Ended(kind, j, r, "none")
             /\ UNCHANGED <<csv, task, budget, interrupted, prepared, mutation, query>>
    ELSE \E present \in BOOLEAN :
           IF ~present
           THEN \* document.exists() is false: FileNotFoundError
                LET r == on_exception(jb, CodeMsg) IN
                /\ store' = [store EXCEPT ![j] = r.job]
                /\ last' = [Ended(kind, j, r, "none") EXCEPT !.missing = TRUE]
                /\ UNCHANGED <<csv, task, budget, interrupted, prepared, mutation, query>>
           ELSE \* suspended in client.process for the first document
                /\ budget > 0
                /\ FreeSlots # {}
                /\ budget' = budget - 1
                /\ task' = [task EXCEPT ![FirstFreeSlot] =
                     [ pc |-> "await", kind |-> kind, job |-> j,
                       resume |-> resume,
                       files_to_process |-> files_to_process, i |-> 1,
                       processed_sources |-> processed_sources,
                       total_processed_files |-> {},
                       error_files |-> {},
                       baseline_files_processed |-> jb.files_processed,
                       baseline_error_count |-> jb.error_count ]]
                /\ store' = [store EXCEPT ![j] = jb]
                /\ last' = Call(OpName(kind), j, "suspended")
                /\ UNCHANGED <<csv, interrupted, prepared, mutation, query>>

\* JobLifecycle.get_job_progress: the fields of the stored job, as one record
get_job_progress(jb) ==
    [ status          |-> jb.status,
      files_processed |-> jb.files_processed,
      total_files     |-> jb.total_files,
      error_count     |-> jb.error_count,
      error_message   |-> jb.error_message ]

\* Mutant of process_job_skips: a settled job is processed again.
process_job_skips_failed_only(status) == status = FAILED

\* Mutant of process_job_skips: a FAILED job is processed again.
process_job_skips_done_only(status) == status \in {DONE, DONE_WITH_ERRORS}

\* The statuses in which process_job returns at once ("skipping processing",
\* "use retry_failed_records"); PENDING and RUNNING jobs go on.
process_job_skips(status) == status \in {DONE, DONE_WITH_ERRORS, FAILED}

\* JobLifecycle.process_job, to its first await or its end.
ProcessJob(j, resume) ==
    /\ j \in DOMAIN store
    /\ IF process_job_skips(store[j].status)
       THEN /\ last' = Call("process_job", j, "skipped")
            /\ UNCHANGED <<store, csv, task, budget, interrupted, prepared, mutation, query>>
       ELSE LET started == IF store[j].status = PENDING
                           THEN start(store[j]).job ELSE store[j]
                resuming == csv[j].exists /\ resume
                processed_sources ==
                    IF resuming THEN Range(get_processed_files(csv[j])) ELSE {}
                jb == IF resuming
                      THEN update_progress(started,
                               Cardinality(processed_sources), None).job
                      ELSE started
            IN  ProcessRemainingFiles("process", j, jb, processed_sources,
                                      None, resume)

\* JobLifecycle.retry_failed_records, to its first await or its end.
RetryFailedRecords(j) ==
    /\ j \in DOMAIN store
    /\ IF store[j].status # RUNNING
       THEN /\ last' = Call("retry_failed_records", j, "skipped")
            /\ UNCHANGED <<store, csv, task, budget, interrupted, prepared, mutation, query>>
       ELSE IF ~csv[j].exists
       THEN LET r == fail(store[j], CodeMsg) IN
            /\ store' = [store EXCEPT ![j] = r.job]
            /\ last' = Ended("retry", j, r, "none")
            /\ UNCHANGED <<csv, task, budget, interrupted, prepared, mutation, query>>
       ELSE LET processed_files == get_processed_files(csv[j])
                files_to_process ==
                    get_unprocessed_files(store[j], processed_files, {})
            IN  ProcessRemainingFiles("retry", j, store[j],
                                      Range(processed_files),
                                      Some(files_to_process), FALSE)

\* Mutant of can_retry: the status is not validated.
can_retry_any(status) == TRUE

\* The status validation of prepare_retry_and_get_cleaned_csv.
can_retry(status) == status = DONE_WITH_ERRORS

\* JobLifecycle.prepare_retry_and_get_cleaned_csv
PrepareRetry(j) ==
    /\ j \in DOMAIN store
    /\ IF ~can_retry(store[j].status) \/ ~csv[j].exists
       THEN /\ last' = Call("prepare_retry_and_get_cleaned_csv", j, "raised")
            /\ UNCHANGED <<store, csv, task, budget, interrupted, prepared, mutation, query>>
       ELSE LET cleaned == clean_raw_csv_errors(csv[j])
                processed_files == get_processed_files(cleaned)
                r == restart_for_retry(store[j], Len(processed_files))
            IN  IF r.raised
                THEN \* restart_for_retry raises after the file was cleaned
                     /\ csv' = [csv EXCEPT ![j] = cleaned]
                     /\ last' = Call("prepare_retry_and_get_cleaned_csv", j,
                                     "raised")
                     /\ UNCHANGED <<store, task, budget, interrupted, prepared, mutation, query>>
                ELSE /\ csv' = [csv EXCEPT ![j] = cleaned]
                     /\ store' = [store EXCEPT ![j] =
                                     [r.job EXCEPT !.error_count = 0]]
                     /\ last' = [ Call("prepare_retry_and_get_cleaned_csv", j,
                                       "returned")
                                    EXCEPT !.ret = cleaned.rows ]
                     /\ interrupted' = [interrupted EXCEPT ![j] = None]
                     /\ prepared' = [prepared EXCEPT
                                       ![j] = Some(store[j].error_count)]
                     /\ UNCHANGED <<task, budget, mutation, query>>

\* Mutant of job_of: every coroutine writes to the same job of the store.
job_of_any(tk) == CHOOSE j \in DOMAIN store : TRUE

\* The job whose log and entry a coroutine writes: raw_csv_path and job.id
\* of the _process_remaining_files call that row_callback closes over.
job_of(tk) == tk.job

\* client.process returns or raises for the document coroutine t waits on;
\* LLMProcessor.run builds the record, calls row_callback and goes on to the
\* next document, or _process_remaining_files completes the job.
LLMReturn(t, o) ==
    /\ task[t].pc = "await"
    /\ LET tk == task[t]
           j == job_of(tk)
           record == build_record(tk.files_to_process[tk.i], o)
           w == row_callback(csv[j], tk, store[j], record)
       IN
       /\ csv' = [csv EXCEPT ![j] = w.file]
       /\ UNCHANGED <<budget, interrupted, prepared, mutation, query, background>>
       /\ IF tk.i < Len(tk.files_to_process)
          THEN \E present \in BOOLEAN :
                 IF present
                 THEN /\ task' = [task EXCEPT ![t] = [w.task EXCEPT !.i = @ + 1]]
                      /\ store' = [store EXCEPT ![j] = w.job]
                      /\ last' = [Call("row_callback", j, w.cb)
                                    EXCEPT !.cb = w.cb, !.llm = o.kind]
                 ELSE LET r == on_exception(w.job, CodeMsg) IN
                      /\ task' = [task EXCEPT ![t] = IdleTask]
                      /\ store' = [store EXCEPT ![j] = r.job]
                      /\ last' = [Ended(tk.kind, j, r, w.cb)
                                    EXCEPT !.llm = o.kind, !.missing = TRUE]
          ELSE LET r == complete_in_try(w.job, read_csv(w.file)) IN
               /\ task' = [task EXCEPT ![t] = IdleTask]
               /\ store' = [store EXCEPT ![j] = r.job]
               /\ last' = [Ended(tk.kind, j, r, w.cb) EXCEPT !.llm = o.kind]

\* The coroutine is cancelled while it waits for the inference capability
\* (asyncio.CancelledError is no Exception: the except clause is passed over
\* and the finally clause stores the job as it is).
Interrupt(t) ==
    /\ task[t].pc = "await"
    /\ task' = [task EXCEPT ![t] = IdleTask]
    /\ last' = Call(OpName(task[t].kind), task[t].job, "cancelled")
    /\ interrupted' = [interrupted EXCEPT
                           ![task[t].job] = Some(csv[task[t].job].rows)]
    /\ UNCHANGED <<store, csv, budget, prepared, mutation, query, background>>

Init ==
    /\ store = << >>
    /\ csv = [j \in JobIds |-> NoCsv]
    /\ task = [t \in Tasks |-> IdleTask]
    /\ budget = MaxRuns
    /\ interrupted = [j \in JobIds |-> None]
    /\ prepared = [j \in JobIds |-> None]
    /\ mutation = NoMutation
    /\ query = NoQuery
    /\ background = <<>>
    /\ last = Call("none", 1, "returned")

\* No coroutine is suspended.
NoneRunning == \A t \in Tasks : task[t].pc = "idle"

\* The caller runs one coroutine of a job at a time (section 5 of the
\* specification: concurrent runs of a job are prevented by the caller).
Next ==
    \/ \E j \in JobIds, files \in FileLists :
           CreateJob(j, files) /\ UNCHANGED background
    \/ \E j \in JobIds, resume \in BOOLEAN :
           NoneRunning /\ ProcessJob(j, resume) /\ UNCHANGED background
    \/ \E j \in JobIds : PrepareRetry(j) /\ UNCHANGED background
    \/ \E j \in JobIds :
           NoneRunning /\ RetryFailedRecords(j) /\ UNCHANGED background
    \/ \E t \in Tasks, o \in Outcomes : LLMReturn(t, o)
    \/ \E t \in Tasks : Interrupt(t)

Spec == Init /\ [][Next]_vars

\* Calls arrive at any time: coroutines of one job interleave at their awaits.
NextConcurrent ==
    \/ \E j \in JobIds, files \in FileLists :
           CreateJob(j, files) /\ UNCHANGED background
    \/ \E j \in JobIds, resume \in BOOLEAN :
           ProcessJob(j, resume) /\ UNCHANGED background
    \/ \E j \in JobIds : PrepareRetry(j) /\ UNCHANGED background
    \/ \E j \in JobIds : RetryFailedRecords(j) /\ UNCHANGED background
    \/ \E t \in Tasks, o \in Outcomes : LLMReturn(t, o)
    \/ \E t \in Tasks : Interrupt(t)

InitConcurrent ==
    /\ store = << >>
    /\ csv = [j \in JobIds |-> NoCsv]
    /\ task = [t \in Tasks |-> IdleTask]
    /\ budget = MaxTasks
    /\ interrupted = [j \in JobIds |-> None]
    /\ prepared = [j \in JobIds |-> None]
    /\ mutation = NoMutation
    /\ query = NoQuery
    /\ background = <<>>
    /\ last = Call("none", 1, "returned")

SpecConcurrent == InitConcurrent /\ [][NextConcurrent]_vars

---------------------------------------------------------------------------
(* SpecClean: _clean_raw_csv_errors on its own, applied to any log of up   *)
(* to MaxLogRows records.                                                  *)

\* The records a log may hold: the extracted value may be the text NA, the
\* error may be empty, blank or set.
LogRows ==
    [ source_file : {NameOf(1), NameOf(2)}, val : {<<"e">>, NA},
      error : {<<>>, <<" ">>, <<"e">>} ]

Logs == UNION { [1 .. k -> LogRows] : k \in 0 .. MaxLogRows }

InitClean ==
    /\ store = << >>
    /\ \E rows \in Logs : csv = [j \in JobIds |-> [exists |-> TRUE, rows |-> rows]]
    /\ task = [t \in Tasks |-> IdleTask]
    /\ budget = 0
    /\ last = Call("none", 1, "returned")
    /\ interrupted = [j \in JobIds |-> None]
    /\ prepared = [j \in JobIds |-> None]
    /\ mutation = NoMutation
    /\ query = NoQuery
    /\ background = <<>>

\* self._clean_raw_csv_errors(raw_csv_path); ret is the set it returns.
CleanRawCsvErrors(j) ==
    /\ csv' = [csv EXCEPT ![j] = clean_raw_csv_errors(csv[j])]
    /\ last' = [ Call("_clean_raw_csv_errors", j, "returned")
                   EXCEPT !.ret = Some(error_files_removed(csv[j])) ]
    /\ UNCHANGED <<store, task, budget, interrupted, prepared, mutation, query, background>>

NextClean == \E j \in JobIds : CleanRawCsvErrors(j)

SpecClean == InitClean /\ [][NextClean]_vars

---------------------------------------------------------------------------
(* SpecResult: the end of a run and the retrieval of the result, for any   *)
(* log of up to MaxLogRows records.                                        *)

\* JobLifecycle.get_job_result: raised, or the records of the text returned
get_job_result(jb) ==
    IF jb.status \notin {DONE, DONE_WITH_ERRORS} \/ jb.result = None
    THEN [raised |-> TRUE, ret |-> <<>>]
    ELSE [raised |-> FALSE, ret |-> to_csv(jb.result[1]).rows]

\* A run of a job of two documents has made its last append: the counters
\* are those row_callback has kept.
InitResult ==
    /\ \E rows \in Logs :
         /\ csv = [j \in JobIds |-> [exists |-> TRUE, rows |-> rows]]
         /\ store = (1 :> update_progress(
                 start(NewJob(<<NameOf(1), NameOf(2)>>)).job,
                 Len(rows),
                 Some(Cardinality({ i \in 1 .. Len(rows) :
                                      rows[i].error # <<>> }))).job)
    /\ task = [t \in Tasks |-> IdleTask]
    /\ budget = 0
    /\ last = Call("row_callback", 1, "appended")
    /\ interrupted = [j \in JobIds |-> None]
    /\ prepared = [j \in JobIds |-> None]
    /\ mutation = NoMutation
    /\ query = NoQuery
    /\ background = <<>>

\* The end of _process_remaining_files: df_raw = pd.read_csv(raw_csv_path);
\* job.complete(result=df_raw)
ResultComplete(j) ==
    /\ store[j].status = RUNNING
    /\ LET r == complete_in_try(store[j], read_csv(csv[j])) IN
       /\ store' = [store EXCEPT ![j] = r.job]
       /\ last' = Ended("process", j, r, "none")
    /\ UNCHANGED <<csv, task, budget, interrupted, prepared, mutation, query, background>>

\* GET /{job_id}/result
GetJobResult(j) ==
    /\ LET g == get_job_result(store[j]) IN
       last' = [ Call("get_job_result", j,
                      IF g.raised THEN "raised" ELSE "returned")
                   EXCEPT !.ret = g.ret ]
    /\ UNCHANGED <<store, csv, task, budget, interrupted, prepared, mutation, query, background>>

NextResult ==
    \/ \E j \in JobIds : ResultComplete(j)
    \/ \E j \in JobIds : GetJobResult(j)

SpecResult == InitResult /\ [][NextResult]_vars

---------------------------------------------------------------------------
(* SpecColumn: the construction of a Column (Field Spec) from any name of  *)
(* up to MaxNameLen characters.                                            *)

\* longest field name given to Column in SpecColumn
MaxNameLen == 3

\* Longest description a Column accepts.
DescriptionLimit == 300

\* The characters of a field name: a lower-case and an upper-case letter, a
\* digit, the underscore, two separators, a quote, the ampersand, a
\* character that is none of these, and the line feed.
NameChars == {"a", "A", "1", "_", " ", "-", "'", "&", "!", "\n"}

FieldNames == UNION { [1 .. n -> NameChars] : n \in 0 .. MaxNameLen }

\* The lengths of a description: empty, the longest accepted, one more.
DescriptionLens == {0, DescriptionLimit, DescriptionLimit + 1}

\* str.lower()
lower(s) ==
    [i \in 1 .. Len(s) |->
        CASE s[i] = "A" -> "a"
          [] s[i] = "Y" -> "y"
          [] s[i] = "Not specified" -> "not specified"
          [] s[i] = "Not found" -> "not found"
          [] OTHER -> s[i]]

\* str.replace(old, new) for a one-character old
RECURSIVE replace(_, _, _)
replace(s, old, new) ==
    IF s = <<>> THEN <<>>
    ELSE (IF Head(s) = old THEN new ELSE <<Head(s)>>)
         \o replace(Tail(s), old, new)

\* The pre-processing of Column.__post_init__ (the replacements of the
\* characters of NameChars, in the order of the code).
processed_name(name) ==
    LET s1 == lower(name)
        s2 == replace(s1, " ", <<"_">>)
        s3 == replace(s2, "-", <<"_">>)
        s4 == replace(s3, "'", <<>>)
    IN  replace(s4, "&", <<"_", "a", "n", "d", "_">>)

IdentStart == {"a", "A", "n", "d", "_"}
IdentChars == IdentStart \cup {"1"}

\* s is in [a-zA-Z_][a-zA-Z0-9_]*
IsIdentifier(s) ==
    /\ s # <<>>
    /\ s[1] \in IdentStart
    /\ \A i \in 1 .. Len(s) : s[i] \in IdentChars

\* re.match(r'^[a-zA-Z_][a-zA-Z0-9_]*$', s): $ matches at the end of the
\* string and also just before a line feed that ends the string.
re_match(s) ==
    \/ IsIdentifier(s)
    \/ /\ Len(s) >= 2
       /\ s[Len(s)] = "\n"
       /\ IsIdentifier(SubSeq(s, 1, Len(s) - 1))

\* Column(name=..., description=...): the exception raised, or the Column
Column(name, description_len) ==
    LET processed == processed_name(name) IN
    IF ~re_match(processed)
    THEN [raised |-> "InvalidColumnNameError", column |-> None]
    ELSE IF description_len > DescriptionLimit
    THEN [raised |-> "ValueError", column |-> None]
    ELSE [raised |-> "none", column |-> Some(processed)]

\* A name and a description are about to be made a Column.
InitColumn ==
    /\ \E name \in FieldNames, d \in DescriptionLens :
           last = [ Call("input", 1, "returned")
                      EXCEPT !.arg = Some([name |-> name, description |-> d]) ]
    /\ store = << >>
    /\ csv = [j \in JobIds |-> NoCsv]
    /\ task = [t \in Tasks |-> IdleTask]
    /\ budget = 0
    /\ interrupted = [j \in JobIds |-> None]
    /\ prepared = [j \in JobIds |-> None]
    /\ mutation = NoMutation
    /\ query = NoQuery
    /\ background = <<>>

NewColumn ==
    /\ last.op = "input"
    /\ LET c == Column(last.arg[1].name, last.arg[1].description) IN
       last' = [ Call("Column", 1, c.raised)
                   EXCEPT !.arg = last.arg, !.ret = c.column ]
    /\ UNCHANGED <<store, csv, task, budget, interrupted, prepared, mutation, query, background>>

NextColumn == NewColumn

SpecColumn == InitColumn /\ [][NextColumn]_vars

---------------------------------------------------------------------------
(* SpecSubmit: POST / with any columns payload of up to MaxColumns items.  *)

\* most items of a columns payload in SpecSubmit
MaxColumns == 2

\* The names of the items of a payload: two that normalize to the same
\* identifier, one that starts with a digit, one that ends with a line
\* feed, a blank one.
SubmitNames == {<<"a">>, <<"A">>, <<"1">>, <<"a", "\n">>, <<" ">>}

\* An item of the JSON list: shaped is whether it is an object with a text
\* under "name" and nothing pydantic refuses but the name itself.
ColumnItems ==
    [ shaped : BOOLEAN, name : SubmitNames,
      description : {0, DescriptionLimit + 1} ]

\* The columns form field: text that is no JSON, JSON that is no list, or a
\* JSON list of items.
Payloads ==
    [kind : {"malformed", "notlist"}, items : {<<>>}]
    \cup [ kind : {"list"},
           items : UNION { [1 .. n -> ColumnItems] : n \in 0 .. MaxColumns } ]

\* ColumnInput(**item) is accepted (name_not_empty: v.strip() is not empty)
ColumnInput(item) == item.shaped /\ strip(item.name) # <<>>

\* parse_columns_payload: raised (HTTPException 400), or the Column names
parse_columns_payload(raw) ==
    LET n == Len(raw.items)
        cols == [i \in 1 .. n |->
                    Column(raw.items[i].name, raw.items[i].description)]
    IN
    IF raw.kind # "list" THEN [raised |-> TRUE, columns |-> <<>>]
    ELSE IF \E i \in 1 .. n : ~ColumnInput(raw.items[i])
    THEN [raised |-> TRUE, columns |-> <<>>]
    ELSE IF \E i \in 1 .. n : cols[i].raised # "none"
    THEN [raised |-> TRUE, columns |-> <<>>]
    ELSE IF \E i, k \in 1 .. n : i # k /\ cols[i].column = cols[k].column
    THEN [raised |-> TRUE, columns |-> <<>>]
    ELSE [raised |-> FALSE, columns |-> [i \in 1 .. n |-> cols[i].column[1]]]

\* A request with any payload arrives at a server that holds no job or one.
InitSubmit ==
    /\ \E raw \in Payloads :
           last = [Call("request", 1, "returned") EXCEPT !.arg = Some(raw)]
    /\ store \in {<< >>, (1 :> NewJob(<<NameOf(1)>>))}
    /\ csv = [j \in JobIds |-> NoCsv]
    /\ task = [t \in Tasks |-> IdleTask]
    /\ budget = 0
    /\ interrupted = [j \in JobIds |-> None]
    /\ prepared = [j \in JobIds |-> None]
    /\ mutation = NoMutation
    /\ query = NoQuery
    /\ background = <<>>

\* The create_job endpoint: the payload is parsed first; then the uploads
\* are staged (a missing filename raises), the job is created under a new
\* id and process_job is added to the background tasks.
PostJob(files, filename_missing) ==
    /\ last.op = "request"
    /\ LET raw == last.arg[1]
           parsed == parse_columns_payload(raw)
           job_id == Cardinality(DOMAIN store) + 1
       IN
       IF parsed.raised \/ (filename_missing /\ files # <<>>)
       THEN /\ last' = [ Call("POST /", job_id, "HTTPException")
                           EXCEPT !.arg = Some(raw) ]
            /\ UNCHANGED <<store, csv, task, budget, interrupted, prepared, mutation, query, background>>
       ELSE /\ store' = (job_id :> NewJob(files)) @@ store
            /\ task' = [task EXCEPT ![FirstFreeSlot] =
                           [ IdleTask EXCEPT !.pc = "scheduled",
                                             !.kind = "process",
                                             !.job = job_id ]]
            /\ last' = [ Call("POST /", job_id, "returned")
                           EXCEPT !.arg = Some(raw) ]
            /\ UNCHANGED <<csv, budget, interrupted, prepared, mutation, query, background>>

NextSubmit ==
    \E files \in FileLists, filename_missing \in BOOLEAN :
        PostJob(files, filename_missing)

SpecSubmit == InitSubmit /\ [][NextSubmit]_vars

---------------------------------------------------------------------------
(* SpecAggregate: Aggregator._aggregate_regular_columns on any table of up *)
(* to MaxAggRows rows with the grouping key and one policy field.          *)

\* most rows of a table given to the aggregator
MaxAggRows == 3

\* The values of country_alpha_3_code, in the order groupby sorts them.
GroupKeys == <<"BRA", "USA">>

Yes == <<"y", "e", "s">>
NotSpecified == <<"Not specified">>

\* The values of the policy field: missing, yes, yes with a capital, no,
\* yes after a blank.
PolicyValues ==
    {NaN, Yes, <<"Y", "e", "s">>, <<"n", "o">>, <<" ", "y", "e", "s">>}

Tables ==
    UNION { [1 .. n -> [key : Range(GroupKeys), val : PolicyValues]] :
              n \in 0 .. MaxAggRows }

\* Series.dropna()
dropna(series) == SelectSeq(series, notna)

\* Mutant of apply_yes_wins_rule: the first value wins.
apply_first_wins_rule(series) ==
    LET non_null_series == dropna(series) IN
    IF Len(non_null_series) = 0 THEN NotSpecified ELSE non_null_series[1]

\* Aggregator._apply_yes_wins_rule
apply_yes_wins_rule(series) ==
    LET non_null_series == dropna(series) IN
    IF Len(non_null_series) = 0 THEN NotSpecified
    ELSE IF \E i \in 1 .. Len(non_null_series) :
                lower(non_null_series[i]) = Yes
    THEN Yes
    ELSE non_null_series[1]

\* The values of the policy field in the rows of key k, in row order.
group_series(df, k) ==
    LET InGroup(r) == r.key = k
        rows == SelectSeq(df, InGroup)
    IN  [i \in 1 .. Len(rows) |-> rows[i].val]

\* df.groupby(grouping_key, as_index=False).agg(agg_dict): one row per key
\* that occurs, in sorted key order.
aggregate_regular_columns(df) ==
    LET Occurs(k) == \E i \in 1 .. Len(df) : df[i].key = k
        keys == SelectSeq(GroupKeys, Occurs)
    IN  [i \in 1 .. Len(keys) |->
            [ key |-> keys[i],
              val |-> apply_yes_wins_rule(group_series(df, keys[i])) ]]

InitAggregate ==
    /\ \E df \in Tables :
           last = [Call("input", 1, "returned") EXCEPT !.arg = Some(df)]
    /\ store = << >>
    /\ csv = [j \in JobIds |-> NoCsv]
    /\ task = [t \in Tasks |-> IdleTask]
    /\ budget = 0
    /\ interrupted = [j \in JobIds |-> None]
    /\ prepared = [j \in JobIds |-> None]
    /\ mutation = NoMutation
    /\ query = NoQuery
    /\ background = <<>>

AggregateRegularColumns ==
    /\ last.op = "input"
    /\ last' = [ Call("_aggregate_regular_columns", 1, "returned")
                   EXCEPT !.arg = last.arg,
                          !.ret = Some(aggregate_regular_columns(last.arg[1])) ]
    /\ UNCHANGED <<store, csv, task, budget, interrupted, prepared, mutation, query, background>>

NextAggregate == AggregateRegularColumns

SpecAggregate == InitAggregate /\ [][NextAggregate]_vars

---------------------------------------------------------------------------
(* SpecJustify: Aggregator._add_justification_columns on any table of up   *)
(* to MaxJustRows rows with the grouping key, one policy field, its        *)
(* justification and the source file.  "Not specified" and "Not found",    *)
(* the defaults GeminiClient._normalize writes, are one character each.    *)

\* most rows of a table given to _add_justification_columns
MaxJustRows == 3

No == <<"n", "o">>

\* The values of the policy field: yes, yes with a capital, no, the default,
\* another answer, missing.
JustValues == {Yes, <<"Y", "e", "s">>, No, NotSpecified, <<"x">>, NaN}

\* The justifications: a text, the default, missing.
Justifications == {<<"j">>, <<"Not found">>, NaN}

SourceFiles == {<<"a">>, <<"b">>}

\* values ["no","yes","no"], justifications ["j1","j2","j3"], files a, b, c
YesExample ==
    << [key |-> "BRA", val |-> No, just |-> <<"j", "1">>, source_file |-> <<"a">>],
       [key |-> "BRA", val |-> Yes, just |-> <<"j", "2">>, source_file |-> <<"b">>],
       [key |-> "BRA", val |-> No, just |-> <<"j", "3">>, source_file |-> <<"c">>] >>

\* values ["no","not specified"], justifications ["not found","note"], files a, b
AllNoExample ==
    << [key |-> "BRA", val |-> No, just |-> <<"not found">>,
        source_file |-> <<"a">>],
       [key |-> "BRA", val |-> <<"not specified">>,
        just |-> <<"n", "o", "t", "e">>, source_file |-> <<"b">>] >>

JustTables ==
    UNION { [1 .. n -> [ key : Range(GroupKeys), val : JustValues,
                         just : Justifications, source_file : SourceFiles ]] :
              n \in 0 .. MaxJustRows }
        \cup {YesExample, AllNoExample}

\* series_raw.astype(str).str.lower().str.strip() of one value
series_val(v) == strip(lower(astype_str(v)))

allowed_no_like == {No, <<"not specified">>, <<>>, <<"n", "a", "n">>}

invalid_values ==
    {<<"not specified">>, <<"not found">>, <<"n", "a", "n">>,
     <<"n", "o", "n", "e">>, <<>>}

\* Mutant of is_valid_justification: no text is dropped.
is_valid_justification_any(justification) == TRUE

\* Aggregator._is_valid_justification
is_valid_justification(justification) ==
    /\ strip(justification) # <<>>
    /\ strip(lower(justification)) \notin invalid_values

\* The order of Python's str comparison on the characters of the model.
CodePoint(c) ==
    CASE c = " " -> 32
      [] c = ":" -> 58
      [] c = "|" -> 124
      [] c = "a" -> 97
      [] c = "b" -> 98
      [] c = "c" -> 99
      [] c = "e" -> 101
      [] c = "j" -> 106
      [] c = "n" -> 110
      [] c = "o" -> 111
      [] c = "t" -> 116
      [] c = "1" -> 49
      [] c = "2" -> 50
      [] c = "3" -> 51
      [] OTHER -> 127

RECURSIVE str_less(_, _)
str_less(s, t) ==
    IF t = <<>> THEN FALSE
    ELSE IF s = <<>> THEN TRUE
    ELSE IF CodePoint(Head(s)) # CodePoint(Head(t))
    THEN CodePoint(Head(s)) < CodePoint(Head(t))
    ELSE str_less(Tail(s), Tail(t))

\* sorted(list(set(...)))
RECURSIVE sorted(_)
sorted(S) ==
    IF S = {} THEN <<>>
    ELSE LET m == CHOOSE x \in S : \A y \in S \ {x} : str_less(x, y)
         IN  <<m>> \o sorted(S \ {m})

\* " | ".join(...)
RECURSIVE join(_)
join(seq) ==
    IF seq = <<>> THEN <<>>
    ELSE IF Len(seq) = 1 THEN seq[1]
    ELSE seq[1] \o <<" ", "|", " ">> \o join(Tail(seq))

JustificationNotProvided == <<"Justification not provided">>

\* f"{source_file}: {justification}"
formatted(row) ==
    row.source_file \o <<":", " ">>
        \o (IF notna(row.just) THEN row.just ELSE <<>>)

\* Mutant of include_mask: in a yes group every row of the group is taken.
include_mask_all(group, i) == TRUE

\* include_mask of row i of a group: None is FALSE everywhere.
include_mask(group, i) ==
    LET vals == [k \in 1 .. Len(group) |-> series_val(group[k].val)]
        any_yes == \E k \in 1 .. Len(vals) : vals[k] = Yes
        all_no_or_not_spec ==
            (\A k \in 1 .. Len(vals) : vals[k] \in allowed_no_like) /\ ~any_yes
    IN  IF any_yes THEN vals[i] = Yes
        ELSE IF all_no_or_not_spec
        THEN vals[i] \in {No, <<"not specified">>}
        ELSE FALSE

\* Mutant of justification_text: the fallback text is not written.
justification_text_blank(df, k) == <<>>

\* The cell of the justification column of key k after
\* _add_justification_columns.
justification_text(df, k) ==
    LET InGroup(r) == r.key = k
        group == SelectSeq(df, InGroup)
        vals == [i \in 1 .. Len(group) |-> series_val(group[i].val)]
        any_yes == \E i \in 1 .. Len(vals) : vals[i] = Yes
        all_no_or_not_spec ==
            (\A i \in 1 .. Len(vals) : vals[i] \in allowed_no_like) /\ ~any_yes
        matching == { i \in 1 .. Len(group) : include_mask(group, i) }
        texts == { formatted(group[i]) :
                     i \in { m \in matching :
                               is_valid_justification(
                                   IF notna(group[m].just)
                                   THEN group[m].just ELSE <<>>) } }
        text == join(sorted(texts))
    IN  IF any_yes \/ all_no_or_not_spec
        THEN (IF text # <<>> THEN text ELSE JustificationNotProvided)
        ELSE <<>>

\* One row per key that occurs, in sorted key order, with its justification.
add_justification_columns(df) ==
    LET Occurs(k) == \E i \in 1 .. Len(df) : df[i].key = k
        keys == SelectSeq(GroupKeys, Occurs)
    IN  [i \in 1 .. Len(keys) |->
            [key |-> keys[i], just |-> justification_text(df, keys[i])]]

InitJustify ==
    /\ \E df \in JustTables :
           last = [Call("input", 1, "returned") EXCEPT !.arg = Some(df)]
    /\ store = << >>
    /\ csv = [j \in JobIds |-> NoCsv]
    /\ task = [t \in Tasks |-> IdleTask]
    /\ budget = 0
    /\ interrupted = [j \in JobIds |-> None]
    /\ prepared = [j \in JobIds |-> None]
    /\ mutation = NoMutation
    /\ query = NoQuery
    /\ background = <<>>

AddJustificationColumns ==
    /\ last.op = "input"
    /\ last' = [ Call("_add_justification_columns", 1, "returned")
                   EXCEPT !.arg = last.arg,
                          !.ret = Some(add_justification_columns(last.arg[1])) ]
    /\ UNCHANGED <<store, csv, task, budget, interrupted, prepared, mutation, query, background>>

NextJustify == AddJustificationColumns

SpecJustify == InitJustify /\ [][NextJustify]_vars

---------------------------------------------------------------------------
(* SpecExplode: Aggregator._safe_explode_countries on any table of up to   *)
(* MaxExplodeRows rows that has both the "country_alpha_3_code" and the    *)
(* "country" column.  A code or a country name is one character.           *)

\* most rows of a table given to _safe_explode_countries
MaxExplodeRows == 2

\* The cells of the code column: missing, one code, two codes separated by
\* ", ", by "," and by " ,", a code with a trailing comma.
CodeCells ==
    { NaN, <<"AUT">>, <<"AUT", ",", " ", "DEU">>, <<"AUT", ",", "DEU">>,
      <<"AUT", " ", ",", "DEU">>, <<"AUT", ",">> }

\* The cells of the name column: missing, one name, two names, three names.
NameCells ==
    { NaN, <<"Austria">>, <<"Austria", ",", " ", "Germany">>,
      <<"Austria", ",", "Germany", ",", " ", "Italy">> }

\* What the other columns of a row hold.
OtherCells == {<<"a">>, <<"b">>}

ExplodeTables ==
    UNION { [1 .. n -> [ country_alpha_3_code : CodeCells, country : NameCells,
                         other : OtherCells ]] :
              n \in 0 .. MaxExplodeRows }

\* Mutant of split: the text is not split.
split_none(s) == <<s>>

\* str.split(r",\s*") of one text
RECURSIVE split(_)
split(s) ==
    IF \A i \in 1 .. Len(s) : s[i] # ","
    THEN <<s>>
    ELSE LET c == CHOOSE i \in 1 .. Len(s) :
                      /\ s[i] = ","
                      /\ \A k \in 1 .. i - 1 : s[k] # ","
             e == CHOOSE i \in c .. Len(s) :
                      /\ \A k \in c + 1 .. i : s[k] = " "
                      /\ (i < Len(s) => s[i + 1] # " ")
         IN  <<SubSeq(s, 1, c - 1)>> \o split(SubSeq(s, e + 1, Len(s)))

\* lengths_match of one row
lengths_match(row) ==
    Len(split(astype_str(row.country_alpha_3_code)))
        = Len(split(astype_str(row.country)))

\* The rows that explode() makes of row i, which keep its index label, with
\* both columns stripped.
explode_row(df, i) ==
    LET codes == split(astype_str(df[i].country_alpha_3_code))
        names == split(astype_str(df[i].country))
    IN  [n \in 1 .. Len(codes) |->
            [ index |-> i,
              country_alpha_3_code |-> strip(codes[n]),
              country |-> strip(names[n]),
              other |-> df[i].other ]]

RECURSIVE explode_from(_, _)
explode_from(df, i) ==
    IF i > Len(df) THEN <<>>
    ELSE (IF lengths_match(df[i]) THEN explode_row(df, i) ELSE <<>>)
             \o explode_from(df, i + 1)

\* Aggregator._safe_explode_countries
safe_explode_countries(df) == explode_from(df, 1)

InitExplode ==
    /\ \E df \in ExplodeTables :
           last = [Call("input", 1, "returned") EXCEPT !.arg = Some(df)]
    /\ store = << >>
    /\ csv = [j \in JobIds |-> NoCsv]
    /\ task = [t \in Tasks |-> IdleTask]
    /\ budget = 0
    /\ interrupted = [j \in JobIds |-> None]
    /\ prepared = [j \in JobIds |-> None]
    /\ mutation = NoMutation
    /\ query = NoQuery
    /\ background = <<>>

SafeExplodeCountries ==
    /\ last.op = "input"
    /\ last' = [ Call("_safe_explode_countries", 1, "returned")
                   EXCEPT !.arg = last.arg,
                          !.ret = Some(safe_explode_countries(last.arg[1])) ]
    /\ UNCHANGED <<store, csv, task, budget, interrupted, prepared, mutation, query, background>>

NextExplode == SafeExplodeCountries

SpecExplode == InitExplode /\ [][NextExplode]_vars

---------------------------------------------------------------------------
(* SpecRecord: the record LLMProcessor.run builds for one document and one *)
(* outcome of client.process, with failure messages around the limit of    *)
(* the error column.                                                       *)

\* The lengths of the failure messages.
MessageLens == {0, 1, ErrorLimit - 1, ErrorLimit, ErrorLimit + 1, 2 * ErrorLimit}

\* str(e): texts of those lengths that end with any of three characters.
Messages ==
    { [i \in 1 .. n |-> IF i = n THEN c ELSE "e"] :
        n \in MessageLens, c \in {"e", "f", " "} }

RecordOutcomes ==
    Outcomes \cup [kind : {"raise"}, val : {<<>>}, msg : Messages]

RecordNames == { <<DocName[n]>> : n \in 1 .. Len(DocName) }

InitRecord ==
    /\ \E file_name \in RecordNames, o \in RecordOutcomes :
           last = [ Call("input", 1, "returned")
                      EXCEPT !.arg = Some([file_name |-> file_name, o |-> o]) ]
    /\ store = << >>
    /\ csv = [j \in JobIds |-> NoCsv]
    /\ task = [t \in Tasks |-> IdleTask]
    /\ budget = 0
    /\ interrupted = [j \in JobIds |-> None]
    /\ prepared = [j \in JobIds |-> None]
    /\ mutation = NoMutation
    /\ query = NoQuery
    /\ background = <<>>

BuildRecord ==
    /\ last.op = "input"
    /\ last' = [ Call("run", 1, "returned")
                   EXCEPT !.arg = last.arg,
                          !.ret = Some(build_record(last.arg[1].file_name,
                                                    last.arg[1].o)) ]
    /\ UNCHANGED <<store, csv, task, budget, interrupted, prepared, mutation, query, background>>

NextRecord == BuildRecord

SpecRecord == InitRecord /\ [][NextRecord]_vars

---------------------------------------------------------------------------
(* SpecServer: the job endpoints of job_controller.py.  A coroutine of the *)
(* lifecycle runs only as a background task of a response.  An endpoint    *)
(* declared async def runs on the event loop without a suspension, so it   *)
(* is one step.                                                            *)

BackgroundTask(kind, j, resume) == [kind |-> kind, job |-> j, resume |-> resume]

Remove(seq, n) ==
    [i \in 1 .. Len(seq) - 1 |-> IF i < n THEN seq[i] ELSE seq[i + 1]]

\* POST /: the job is created and process_job(job_id) is added to the
\* injected background tasks of the response.
ServerCreate(j, files) ==
    /\ CreateJob(j, files)
    /\ background' = Append(background, BackgroundTask("process", j, FALSE))

\* background.add_task(lifecycle.retry_failed_records, job_uuid); the
\* Response is returned with background=background.
retry_schedules(tasks, j) == Append(tasks, BackgroundTask("retry", j, FALSE))

\* The endpoint's own check: job.status != "done_with_errors" is refused.
retry_status_ok(status) == status = DONE_WITH_ERRORS

\* POST /{job_id}/retry-failed-records
ServerRetry(j) ==
    IF j \notin DOMAIN store
    THEN /\ last' = Call("POST /retry-failed-records", j, "HTTPException")
         /\ UNCHANGED <<store, csv, task, budget, interrupted, prepared, mutation, query, background>>
    ELSE IF ~retry_status_ok(store[j].status)
    THEN /\ last' = Call("POST /retry-failed-records", j, "HTTPException")
         /\ UNCHANGED <<store, csv, task, budget, interrupted, prepared, mutation, query, background>>
    ELSE /\ PrepareRetry(j)
         /\ background' = IF last'.outcome = "returned"
                          THEN retry_schedules(background, j)
                          ELSE background

\* background = BackgroundTasks(); background.add_task(process_job, job_uuid,
\* True): the object is local to the endpoint and is not handed to the
\* response, which is the ResumeResponse alone.
resume_schedules(tasks, j) == tasks

\* POST /{job_id}/resume: answers 202 "resuming" for any job id.
ServerResume(j) ==
    /\ background' = resume_schedules(background, j)
    /\ last' = Call("POST /resume", j, "returned")
    /\ UNCHANGED <<store, csv, task, budget, interrupted, prepared, mutation, query>>

\* The event loop starts a background task after its response was sent.
RunBackground(n) ==
    /\ n \in 1 .. Len(background)
    /\ background' = Remove(background, n)
    /\ IF background[n].kind = "process"
       THEN ProcessJob(background[n].job, background[n].resume)
       ELSE RetryFailedRecords(background[n].job)

InitServer ==
    /\ store = << >>
    /\ csv = [j \in JobIds |-> NoCsv]
    /\ task = [t \in Tasks |-> IdleTask]
    /\ budget = MaxRuns
    /\ interrupted = [j \in JobIds |-> None]
    /\ prepared = [j \in JobIds |-> None]
    /\ mutation = NoMutation
    /\ query = NoQuery
    /\ background = <<>>
    /\ last = Call("none", 1, "returned")

NextServer ==
    \/ \E j \in JobIds, files \in FileLists : ServerCreate(j, files)
    \/ \E j \in JobIds : ServerRetry(j)
    \/ \E j \in JobIds : ServerResume(j)
    \/ \E n \in 1 .. MaxTasks : RunBackground(n)
    \/ \E t \in Tasks, o \in Outcomes : LLMReturn(t, o)
    \/ \E t \in Tasks : Interrupt(t)

SpecServer == InitServer /\ [][NextServer]_vars

\* The event loop starts every background task it was given, and an
\* inference call that is not cancelled returns.
FairServer ==
    /\ \A n \in 1 .. MaxTasks : WF_vars(RunBackground(n))
    /\ \A t \in Tasks : WF_vars(\E o \in Outcomes : LLMReturn(t, o))

SpecServerFair == SpecServer /\ FairServer

---------------------------------------------------------------------------
(* SpecJobs: the lifecycle with up to MaxJobs jobs, whose calls arrive at  *)
(* any time and whose coroutines interleave at their awaits.               *)

\* most jobs of the store
MaxJobs == 2

ConcurrentJobIds == 1 .. MaxJobs

\* The jobs of this specification have one document each, of the same name.
OneFileLists == { files \in FileLists : Len(files) = 1 }

InitJobs ==
    /\ store = << >>
    /\ csv = [j \in ConcurrentJobIds |-> NoCsv]
    /\ task = [t \in Tasks |-> IdleTask]
    /\ budget = MaxTasks
    /\ interrupted = [j \in ConcurrentJobIds |-> None]
    /\ prepared = [j \in ConcurrentJobIds |-> None]
    /\ mutation = NoMutation
    /\ query = NoQuery
    /\ background = <<>>
    /\ last = Call("none", 1, "returned")

NextJobs ==
    \/ \E j \in ConcurrentJobIds, files \in OneFileLists :
           CreateJob(j, files) /\ UNCHANGED background
    \/ \E j \in ConcurrentJobIds, resume \in BOOLEAN :
           ProcessJob(j, resume) /\ UNCHANGED background
    \/ \E j \in ConcurrentJobIds : PrepareRetry(j) /\ UNCHANGED background
    \/ \E j \in ConcurrentJobIds :
           RetryFailedRecords(j) /\ UNCHANGED background
    \/ \E t \in Tasks, o \in Outcomes : LLMReturn(t, o)
    \/ \E t \in Tasks : Interrupt(t)

SpecJobs == InitJobs /\ [][NextJobs]_vars

---------------------------------------------------------------------------
(* SpecQuery: the status endpoint is a plain function, which the server    *)
(* runs on a worker thread, while the handlers run on the event loop       *)
(* thread.  InMemoryJobRepository.get_job hands both the same Job object:  *)
(* its lock covers the dictionary, not the object.  A handler step is      *)
(* split into its attribute writes, a query into its attribute reads.      *)

WorkerIdle == mutation.pos = Len(mutation.order)
QueryReading == query.pc \in 1 .. Len(ProgressFields)

\* The documents of job j a run still has to process, from the log.
Remaining(j) ==
    get_unprocessed_files(store[j], get_processed_files(csv[j]), {})

\* The job just after process_job has started it.
InitQuery ==
    /\ \E files \in {<<NameOf(1)>>, <<NameOf(1), NameOf(2)>>} :
           store = (1 :> start(NewJob(files)).job)
    /\ csv = [j \in JobIds |-> NoCsv]
    /\ task = [t \in Tasks |-> IdleTask]
    /\ budget = 0
    /\ interrupted = [j \in JobIds |-> None]
    /\ prepared = [j \in JobIds |-> None]
    /\ mutation = NoMutation
    /\ query = NoQuery
    /\ background = <<>>
    /\ last = Call("process_job", 1, "suspended")

\* A handler step on job j begins: it will write the attributes in order,
\* one by one, up to the job after.
Begin(j, after, order) ==
    /\ mutation' = [ job |-> j, before |-> store[j], after |-> after,
                     order |-> order, pos |-> 0 ]
    /\ query' = IF QueryReading /\ query.job = j
                THEN [query EXCEPT !.seen = @ \cup {get_job_progress(after)}]
                ELSE query
    /\ UNCHANGED <<store, task, budget, last, interrupted, prepared, background>>

\* row_callback for the next document of a run: the record is appended and
\* _update_job_progress calls Job.update_progress (files_processed, then
\* error_count).
QueryRowCallback(j, o) ==
    /\ WorkerIdle
    /\ store[j].status = RUNNING
    /\ Remaining(j) # <<>>
    /\ LET tk == [ IdleTask EXCEPT
                     !.processed_sources = Range(get_processed_files(csv[j])),
                     !.baseline_files_processed = store[j].files_processed,
                     !.baseline_error_count = store[j].error_count ]
           w == row_callback(csv[j], tk, store[j],
                             build_record(Remaining(j)[1], o))
       IN  /\ csv' = [csv EXCEPT ![j] = w.file]
           /\ Begin(j, w.job,
                    IF w.cb = "appended"
                    THEN <<"files_processed", "error_count">> ELSE <<>>)

\* job.complete(result=df_raw) at the end of a run (status, then result).
QueryComplete(j) ==
    /\ WorkerIdle
    /\ store[j].status = RUNNING
    /\ Remaining(j) = <<>>
    /\ csv[j].exists
    /\ Begin(j, complete(store[j], Some(read_csv(csv[j]))).job,
             <<"status", "result">>)
    /\ UNCHANGED csv

\* prepare_retry_and_get_cleaned_csv: the log is cleaned, restart_for_retry
\* writes status and files_processed, line 151 writes error_count.
QueryPrepareRetry(j) ==
    /\ WorkerIdle
    /\ can_retry(store[j].status)
    /\ csv[j].exists
    /\ LET cleaned == clean_raw_csv_errors(csv[j])
           r == restart_for_retry(store[j], Len(get_processed_files(cleaned)))
       IN  /\ csv' = [csv EXCEPT ![j] = cleaned]
           /\ Begin(j, [r.job EXCEPT !.error_count = 0],
                    <<"status", "files_processed", "error_count">>)

\* The event loop thread executes the next attribute write of its step.
QueryWrite ==
    /\ ~WorkerIdle
    /\ LET f == mutation.order[mutation.pos + 1] IN
       store' = [store EXCEPT ![mutation.job] =
                    [@ EXCEPT ![f] = mutation.after[f]]]
    /\ mutation' = [mutation EXCEPT !.pos = @ + 1]
    /\ UNCHANGED <<csv, task, budget, last, interrupted, prepared, query, background>>

\* get_job_status on a worker thread: repo.get_job(job_id)
QueryStart(j) ==
    /\ ~QueryReading
    /\ j \in DOMAIN store
    /\ query' = [ pc |-> 1, job |-> j, snap |-> <<>>,
                  seen |-> IF WorkerIdle
                           THEN {get_job_progress(store[j])}
                           ELSE {get_job_progress(mutation.before),
                                 get_job_progress(mutation.after)} ]
    /\ UNCHANGED <<store, csv, task, budget, last, interrupted, prepared, mutation, background>>

\* get_job_progress reads the next attribute of the Job object.
QueryRead ==
    /\ QueryReading
    /\ LET f == ProgressFields[query.pc] IN
       query' = [query EXCEPT !.pc = @ + 1,
                              !.snap = @ @@ (f :> store[query.job][f])]
    /\ UNCHANGED <<store, csv, task, budget, last, interrupted, prepared, mutation, background>>

NextQuery ==
    \/ \E j \in JobIds, o \in Outcomes : QueryRowCallback(j, o)
    \/ \E j \in JobIds : QueryComplete(j)
    \/ \E j \in JobIds : QueryPrepareRetry(j)
    \/ QueryWrite
    \/ \E j \in JobIds : QueryStart(j)
    \/ QueryRead

SpecQuery == InitQuery /\ [][NextQuery]_vars

---------------------------------------------------------------------------
(* Claims about the Job entity (checked under SpecJob).                    *)

Edges ==
    { <<PENDING, RUNNING>>, <<RUNNING, DONE>>, <<RUNNING, DONE_WITH_ERRORS>>,
      <<RUNNING, FAILED>>, <<DONE_WITH_ERRORS, RUNNING>> }

\* C1: whatever Job method is called, the status changes only along
\* PENDING->RUNNING, RUNNING->DONE, RUNNING->DONE_WITH_ERRORS, RUNNING->FAILED
\* and DONE_WITH_ERRORS->RUNNING; so no call changes the status of a DONE or
\* FAILED job.
C1_StatusEdges ==
    [][ store'[1].status # store[1].status
            => <<store[1].status, store'[1].status>> \in Edges ]_vars

\* A transition method has just been refused on a DONE job.
C1_Witness ==
    /\ store[1].status = DONE
    /\ last.op = "restart_for_retry"
    /\ last.outcome = "raised"

\* The call op is illegal in the given status.
Illegal(op, status) ==
    \/ op = "start" /\ status # PENDING
    \/ op \in {"complete", "fail"} /\ status # RUNNING
    \/ op = "restart_for_retry" /\ status # DONE_WITH_ERRORS

\* C2: start() outside PENDING, complete() or fail() outside RUNNING and
\* restart_for_retry() outside DONE_WITH_ERRORS raise and leave every field of
\* the job (status, result, error_message, files_processed, error_count) as
\* it was.
C2_IllegalTransitionRaises ==
    [][ Illegal(last'.op, store[1].status)
            => last'.outcome = "raised" /\ store'[1] = store[1] ]_vars

\* fail() has just been refused on a job that never started.
C2_Witness ==
    /\ last.op = "fail"
    /\ last.outcome = "raised"
    /\ store[1].status = PENDING

\* Some record of the result has an error that is neither missing nor ''.
HasNonEmptyError(result) ==
    /\ result # None
    /\ "error" \in result[1].columns
    /\ \E i \in 1 .. Len(result[1].rows) :
           result[1].rows[i].error \notin {NaN, <<>>}

\* Some record of the result has an error that is not missing and holds a
\* character other than whitespace.
HasNonBlankError(result) ==
    /\ result # None
    /\ "error" \in result[1].columns
    /\ \E i \in 1 .. Len(result[1].rows) :
           LET c == result[1].rows[i].error IN
               c # NaN /\ \E k \in 1 .. Len(c) : c[k] # " "

CompleteReturned == last.op = "complete" /\ last.outcome = "returned"

---------------------------------------------------------------------------
(* Claims about JobLifecycle (checked under Spec unless said otherwise).   *)

\* C4: in every reachable state of a job, after any sequence of create_job,
\* process_job (resume false or true), prepare_retry_and_get_cleaned_csv and
\* retry_failed_records, files_processed <= total_files and
\* error_count <= files_processed.
C4_Counters ==
    \A j \in DOMAIN store :
        /\ store[j].files_processed <= store[j].total_files
        /\ store[j].error_count <= store[j].files_processed

\* C5 as stated: in every reachable state the result is set if and only if
\* the status is DONE or DONE_WITH_ERRORS.
C5_Original ==
    \A j \in DOMAIN store :
        store[j].result # None <=> store[j].status \in {DONE, DONE_WITH_ERRORS}

\* C5 amended: in every reachable state a DONE or DONE_WITH_ERRORS job has
\* its result set and a PENDING job has none (a RUNNING or FAILED job may
\* still hold the result of the run before its retry).
C5_ResultSetWhenDone ==
    \A j \in DOMAIN store :
        /\ store[j].status \in {DONE, DONE_WITH_ERRORS} => store[j].result # None
        /\ store[j].status = PENDING => store[j].result = None

\* A retry run has completed the job and stored its result.
C5_Witness ==
    /\ 1 \in DOMAIN store
    /\ last.op = "retry_failed_records"
    /\ last.outcome = "returned"
    /\ store[1].status = DONE
    /\ store[1].result # None

\* C6: in every reachable state the error_message is set if and only if the
\* status is FAILED.
C6_ErrorMessageIffFailed ==
    \A j \in DOMAIN store :
        store[j].error_message # None <=> store[j].status = FAILED

\* A run has failed on a missing document after its first record and the job
\* holds the message.
C6_Witness ==
    /\ 1 \in DOMAIN store
    /\ last.op = "process_job"
    /\ store[1].status = FAILED
    /\ store[1].error_message = Some(CodeMsg)
    /\ Len(csv[1].rows) = 1

\* C7: at every moment the checkpoint log of a job holds at most one record
\* per source_file.
C7_UniqueSourceFile ==
    \A j \in JobIds :
        \A i, k \in 1 .. Len(csv[j].rows) :
            i # k => csv[j].rows[i].source_file # csv[j].rows[k].source_file

\* The source_file values of the rows of a log.
Sources(rows) == { rows[i].source_file : i \in 1 .. Len(rows) }

\* C8: appending a checkpoint record for a source_file that is already in
\* the log leaves the log, files_processed and error_count unchanged and
\* raises nothing (the call is a silent no-op).
C8_IdempotentAppend ==
    [][ \A t \in Tasks :
          LET j == task[t].job IN
          ( /\ task[t].pc = "await"
            /\ last'.cb # "none"
            /\ task[t].files_to_process[task[t].i] \in Sources(csv[j].rows) )
          => /\ last'.cb = "skipped"
             /\ csv'[j] = csv[j]
             /\ store'[j].files_processed = store[j].files_processed
             /\ store'[j].error_count = store[j].error_count ]_vars

\* No two documents of the list have the same name.
DistinctNames(files) ==
    \A i, k \in 1 .. Len(files) : i # k => files[i] # files[k]

\* C9: for a job of N documents whose run was interrupted after k < N
\* appends, when the run invoked again has completed, the log has exactly N
\* records, no source_file twice, and its first k records are the ones it
\* had at the interruption.
C9_ResumeCompleteness ==
    \A j \in DOMAIN store :
        ( /\ interrupted[j] # None
          /\ Len(interrupted[j][1]) < store[j].total_files
          /\ DistinctNames(store[j].files)
          /\ last.op = "process_job" /\ last.job = j
          /\ last.outcome = "returned"
          /\ store[j].status \in {DONE, DONE_WITH_ERRORS} )
        => /\ Len(csv[j].rows) = store[j].total_files
           /\ Cardinality(Sources(csv[j].rows)) = Len(csv[j].rows)
           /\ SubSeq(csv[j].rows, 1, Len(interrupted[j][1])) = interrupted[j][1]

\* The step is a call of process_job for job j (not the return of an
\* inference call, nor a cancellation).
ProcessJobCalled(j) ==
    /\ last'.op = "process_job"
    /\ last'.job = j
    /\ last'.cb = "none"
    /\ last'.outcome # "cancelled"

\* The step makes no inference call, leaves the jobs and the logs as they
\* were, and the call returns without raising.
SafeNoOp ==
    /\ store' = store
    /\ csv' = csv
    /\ task' = task
    /\ last'.outcome = "skipped"

C11_SettledRunNoOp ==
    [][ \A j \in DOMAIN store :
          ( /\ ProcessJobCalled(j)
            /\ store[j].status \in {DONE, DONE_WITH_ERRORS, FAILED} )
          => /\ store'[j].status = store[j].status
             /\ store'[j].result = store[j].result
             /\ store'[j].error_message = store[j].error_message
             /\ store'[j].files_processed = store[j].files_processed
             /\ store'[j].error_count = store[j].error_count
             /\ csv'[j] = csv[j]
             /\ task' = task
             /\ last'.outcome # "raised" ]_vars

\* process_job has just been called on a DONE_WITH_ERRORS job whose log holds
\* records.
C11_Witness ==
    /\ 1 \in DOMAIN store
    /\ last.op = "process_job"
    /\ last.outcome = "skipped"
    /\ store[1].status = DONE_WITH_ERRORS
    /\ Len(csv[1].rows) = 2

\* C12: when the inference capability fails or returns nothing for a
\* document that has no record yet, the run goes on: the log then holds
\* exactly one record of the document, with a populated error, and the job
\* does not go to FAILED because of it (only a missing next document can
\* still fail the run).
C12_FailureIsolation ==
    [][ \A t \in Tasks :
          LET j == task[t].job
              d == task[t].files_to_process[task[t].i]
          IN
          ( /\ task[t].pc = "await"
            /\ last'.llm \in {"empty", "raise"}
            /\ d \notin Sources(csv[j].rows) )
          => /\ \E i \in 1 .. Len(csv'[j].rows) :
                   /\ csv'[j].rows[i].source_file = d
                   /\ csv'[j].rows[i].error # <<>>
                   /\ \A k \in 1 .. Len(csv'[j].rows) :
                          csv'[j].rows[k].source_file = d => k = i
             /\ \/ store'[j].status # FAILED
                \/ task[t].i < Len(task[t].files_to_process) ]_vars

\* C13: when the inference capability failed for the last document of a run
\* (whatever the failure message, '' and ' ' included) and the run has
\* completed the job, the job is DONE_WITH_ERRORS with error_count >= 1,
\* never DONE.
C13_FailureNeverDone ==
    \A j \in DOMAIN store :
        ( /\ last.job = j
          /\ last.op \in {"process_job", "retry_failed_records"}
          /\ last.llm \in {"empty", "raise"}
          /\ last.outcome = "returned"
          /\ store[j].status \in {DONE, DONE_WITH_ERRORS} )
        => /\ store[j].status = DONE_WITH_ERRORS
           /\ store[j].error_count >= 1

\* C14: when a document of the work set is missing at its turn, the run
\* fails fatally: the job is FAILED with an error message, no coroutine is
\* left to send or append a later document, and the records the log held
\* before are still there, unchanged and in place.
C14_MissingDocumentFails ==
    [][ last'.missing =>
          LET j == last'.job IN
          /\ store'[j].status = FAILED
          /\ store'[j].error_message # None
          /\ store'[j].error_message # Some(<<>>)
          /\ \A t \in Tasks : task'[t].pc = "idle"
          /\ Len(csv'[j].rows) >= Len(csv[j].rows)
          /\ SubSeq(csv'[j].rows, 1, Len(csv[j].rows)) = csv[j].rows ]_vars

\* The second of two documents was missing after the record of the first
\* was appended.
C14_Witness ==
    /\ 1 \in DOMAIN store
    /\ last.missing
    /\ last.op = "process_job"
    /\ store[1].total_files = 2
    /\ store[1].status = FAILED
    /\ Len(csv[1].rows) = 1

\* C15: a run started on a PENDING job that has ended (it is not suspended
\* in an inference call) leaves the job in a terminal status (DONE,
\* DONE_WITH_ERRORS or FAILED), never RUNNING, whatever the document list,
\* the empty list included.
C15_RunEndsTerminal ==
    [][ \A j \in DOMAIN store :
          ( /\ ProcessJobCalled(j)
            /\ store[j].status = PENDING
            /\ last'.outcome # "suspended" )
          => store'[j].status \in {DONE, DONE_WITH_ERRORS, FAILED} ]_vars

---------------------------------------------------------------------------
(* Claims about the retry protocol.                                        *)

\* C16 (SpecClean): _clean_raw_csv_errors deletes exactly the records with a
\* non-empty error: afterwards no record has a non-empty error, the records
\* with an empty error are all there with the same content in the same
\* order, and the set returned is the set of source_file of the records
\* removed.
C16_RemoveErrored ==
    [][ last'.op = "_clean_raw_csv_errors" =>
          LET j == last'.job
              before == csv[j].rows
              after == csv'[j].rows
              NoError(r) == r.error = <<>>
          IN  /\ \A i \in 1 .. Len(after) : after[i].error = <<>>
              /\ after = SelectSeq(before, NoError)
              /\ last'.ret =
                   Some({ before[i].source_file :
                            i \in { k \in 1 .. Len(before) :
                                      before[k].error # <<>> } }) ]_vars

\* restart_for_retry has just returned on what was a DONE_WITH_ERRORS job.
RestartReturned == last'.op = "restart_for_retry" /\ last'.outcome = "returned"

\* C17 as stated (SpecJob): restart_for_retry(processed_count) on a
\* DONE_WITH_ERRORS job sets the status to RUNNING, files_processed to
\* processed_count and error_count to 0.
C17_Original ==
    [][ RestartReturned =>
          /\ store'[1].status = RUNNING
          /\ store'[1].files_processed = last'.arg[1]
          /\ store'[1].error_count = 0 ]_vars

\* C17 amended (SpecJob): restart_for_retry(processed_count) on a
\* DONE_WITH_ERRORS job sets the status to RUNNING and files_processed to
\* processed_count, and leaves error_count (and every other field) as it was.
C17_RestartForRetry ==
    [][ RestartReturned =>
          /\ store[1].status = DONE_WITH_ERRORS
          /\ store'[1] = [store[1] EXCEPT !.status = RUNNING,
                                          !.files_processed = last'.arg[1]] ]_vars

\* restart_for_retry(0) has returned on a job that counted one processed
\* document and one error: the error count is still 1.
C17_Witness ==
    /\ last.op = "restart_for_retry"
    /\ last.outcome = "returned"
    /\ last.arg = Some(0)
    /\ store[1].status = RUNNING
    /\ store[1].files_processed = 0
    /\ store[1].error_count = 1
    /\ store[1].result # None

\* prepare_retry_and_get_cleaned_csv has just returned for job j.
PrepareReturned(j) ==
    /\ last.op = "prepare_retry_and_get_cleaned_csv"
    /\ last.job = j
    /\ last.outcome = "returned"

\* C18: when prepare_retry_and_get_cleaned_csv returns for a
\* DONE_WITH_ERRORS job, the log holds no record with a non-empty error, the
\* job is RUNNING with files_processed = number of records left and
\* error_count = 0, and the content returned is the cleaned log as it stands.
C18_PrepareRetry ==
    \A j \in DOMAIN store :
        PrepareReturned(j) =>
            /\ \A i \in 1 .. Len(csv[j].rows) : csv[j].rows[i].error = <<>>
            /\ store[j].status = RUNNING
            /\ store[j].files_processed = Len(csv[j].rows)
            /\ store[j].error_count = 0
            /\ last.ret = csv[j].rows

\* C19: for a job that is PENDING, RUNNING, DONE or FAILED,
\* prepare_retry_and_get_cleaned_csv raises and leaves the job (status and
\* counters) and its checkpoint log as they were; no reprocessing starts.
C19_RetryOnlyFromDoneWithErrors ==
    [][ \A j \in DOMAIN store :
          ( /\ last'.op = "prepare_retry_and_get_cleaned_csv"
            /\ last'.job = j
            /\ store[j].status \in {PENDING, RUNNING, DONE, FAILED} )
          => /\ last'.outcome = "raised"
             /\ store'[j] = store[j]
             /\ csv'[j] = csv[j]
             /\ task' = task ]_vars

\* A retry was asked for while the run of the job was still going on, with
\* an errored record already in the log: the request was refused.
C19_Witness ==
    /\ 1 \in DOMAIN store
    /\ last.op = "prepare_retry_and_get_cleaned_csv"
    /\ last.outcome = "raised"
    /\ store[1].status = RUNNING
    /\ \E t \in Tasks : task[t].pc = "await"
    /\ \E i \in 1 .. Len(csv[1].rows) : csv[1].rows[i].error = <<"e">>

\* The step is a call of retry_failed_records for job j (not the return of
\* an inference call, nor a cancellation).
RetryCalled(j) ==
    /\ last'.op = "retry_failed_records"
    /\ last'.job = j
    /\ last'.cb = "none"
    /\ last'.outcome # "cancelled"

\* Every document of the job has a record in its log.
AllRecorded(j) ==
    /\ csv[j].exists
    /\ \A i \in 1 .. Len(store[j].files) :
           store[j].files[i] \in Sources(csv[j].rows)

\* C20: when retry_failed_records runs on a RUNNING job all of whose
\* documents have a record in the log, it makes no inference call, appends
\* nothing, re-derives the status from the log as it is with complete(), and
\* the job leaves RUNNING for DONE or DONE_WITH_ERRORS in that very call.
C20_RetryNothingLeft ==
    [][ \A j \in DOMAIN store :
          ( RetryCalled(j) /\ store[j].status = RUNNING /\ AllRecorded(j) )
          => /\ task' = task
             /\ csv'[j] = csv[j]
             /\ last'.outcome = "returned"
             /\ store'[j].result = Some(read_csv(csv[j]))
             /\ store'[j].status =
                  IF HasNonBlankError(store'[j].result)
                  THEN DONE_WITH_ERRORS ELSE DONE
             /\ store'[j].files_processed = store[j].files_processed
             /\ store'[j].error_count = store[j].error_count ]_vars

\* retry_failed_records has completed a job of two documents at once, from
\* a log that held a record of each.
C20_Witness ==
    /\ 1 \in DOMAIN store
    /\ last.op = "retry_failed_records"
    /\ last.outcome = "returned"
    /\ last.cb = "none"
    /\ store[1].status \in {DONE, DONE_WITH_ERRORS}
    /\ store[1].total_files = 2
    /\ AllRecorded(1)

\* C21: in a retry run of a job with distinct document names whose retry was
\* prepared with error_count = e, every document for which the inference succeeds gets exactly one record
\* in the log, with an empty error, and when the run ends in DONE or
\* DONE_WITH_ERRORS the error_count is at most e.
C21_RetryReducesErrors ==
    [][ \A t \in Tasks :
          LET j == task[t].job
              d == task[t].files_to_process[task[t].i]
          IN
          ( /\ task[t].pc = "await"
            /\ task[t].kind = "retry"
            /\ prepared[j] # None
            /\ DistinctNames(store[j].files) )
          => /\ last'.llm = "ok" =>
                  \E i \in 1 .. Len(csv'[j].rows) :
                      /\ csv'[j].rows[i].source_file = d
                      /\ csv'[j].rows[i].error = <<>>
                      /\ \A k \in 1 .. Len(csv'[j].rows) :
                             csv'[j].rows[k].source_file = d => k = i
             /\ ( /\ task'[t].pc = "idle"
                  /\ last'.outcome = "returned"
                  /\ store'[j].status \in {DONE, DONE_WITH_ERRORS} )
                => store'[j].error_count <= prepared[j][1] ]_vars

\* The documents of job j that have no record in its log, in input order.
WorkSet(j) ==
    LET NoRecord(name) == name \notin Sources(csv[j].rows)
    IN  SelectSeq(store[j].files, NoRecord)

\* The coroutine t belongs to a retry run or to a run with resume=True.
ResumeOrRetry(tk) == tk.kind = "retry" \/ tk.resume

\* C22: a resume or retry run that starts an inference works on exactly the
\* job's documents without a record in the log at that moment, in input
\* order: it invokes the inference for the first of them, after each
\* inference goes on to the next one of the same list, and ends in DONE or
\* DONE_WITH_ERRORS only after the inference for the last one.
C22_WorkSet ==
    [][ \A t \in Tasks :
          /\ ( /\ task[t].pc = "idle"
               /\ task'[t].pc = "await"
               /\ ResumeOrRetry(task'[t]) )
             => /\ task'[t].files_to_process = WorkSet(task'[t].job)
                /\ task'[t].i = 1
          /\ ( /\ task[t].pc = "await"
               /\ task'[t].pc = "await"
               /\ task'[t] # task[t]
               /\ ResumeOrRetry(task[t]) )
             => /\ task'[t].files_to_process = task[t].files_to_process
                /\ task'[t].job = task[t].job
                /\ task'[t].i = task[t].i + 1
          /\ ( /\ task[t].pc = "await"
               /\ task'[t].pc = "idle"
               /\ ResumeOrRetry(task[t])
               /\ last'.outcome = "returned"
               /\ store'[task[t].job].status \in {DONE, DONE_WITH_ERRORS} )
             => task[t].i = Len(task[t].files_to_process) ]_vars

\* A resume or retry run awaits the inference for the second document of a
\* job whose first document has its record in the log.
C22_Witness ==
    \E t \in Tasks :
        /\ task[t].pc = "await"
        /\ ResumeOrRetry(task[t])
        /\ Len(store[task[t].job].files) = 2
        /\ task[t].files_to_process = <<store[task[t].job].files[2]>>
        /\ store[task[t].job].files[1] \in Sources(csv[task[t].job].rows)
        /\ store[task[t].job].files[2] \notin Sources(csv[task[t].job].rows)

\* C23: a step of a run (the return of one inference) leaves the records of
\* the log as they are and in their order, and appends at most one record,
\* which is the record of the document the run was waiting for (the work set
\* is walked in input order) and of a document that had no record in the log.
C23_AppendOrder ==
    [][ \A t \in Tasks :
          LET j == task[t].job
              d == task[t].files_to_process[task[t].i]
          IN
          ( task[t].pc = "await" /\ task'[t] # task[t] )
          => \/ csv'[j].rows = csv[j].rows
             \/ /\ Len(csv'[j].rows) = Len(csv[j].rows) + 1
                /\ SubSeq(csv'[j].rows, 1, Len(csv[j].rows)) = csv[j].rows
                /\ csv'[j].rows[Len(csv'[j].rows)].source_file = d
                /\ d \notin Sources(csv[j].rows) ]_vars

\* C24: when the inference for a document of a run has returned or raised,
\* then in the same step, before the run waits for the next inference, the
\* log holds a record of that document, and when the step appended it the
\* job's files_processed has grown by one and its error_count by one exactly
\* when the record carries an error text.
C24_ProgressBeforeNext ==
    [][ \A t \in Tasks :
          LET j == task[t].job
              d == task[t].files_to_process[task[t].i]
              n == Len(csv'[j].rows)
          IN
          ( /\ task[t].pc = "await"
            /\ task'[t] # task[t]
            /\ last'.outcome # "cancelled" )
          => /\ d \in Sources(csv'[j].rows)
             /\ csv'[j].rows # csv[j].rows
                => /\ csv'[j].rows[n].source_file = d
                   /\ last'.missing \/
                      /\ store'[j].files_processed =
                             store[j].files_processed + 1
                      /\ store'[j].error_count =
                             store[j].error_count +
                             (IF csv'[j].rows[n].error # <<>> THEN 1 ELSE 0)
   ]_vars

\* C25: in every state (an append and its progress update are one step, so
\* no append is ever in flight), the files_processed that a status query
\* returns for a job is the number of records in the job's log.
C25_ReadAfterWrite ==
    \A j \in DOMAIN store :
        get_job_progress(store[j]).files_processed = Len(csv[j].rows)

\* C26: the snapshot a status query returns is the job's fields as they were
\* before or after one of the handler steps (progress update, completion,
\* retry preparation) the query has overlapped, never a mix.
C26_AtomicSnapshot ==
    query.pc = Len(ProgressFields) + 1 => query.snap \in query.seen

\* C27: get_job_result returns exactly when the job is DONE or
\* DONE_WITH_ERRORS and has a result, and raises otherwise; the records it
\* returns are the records of the job's log.
C27_ResultRetrieval ==
    last.op = "get_job_result" =>
        /\ last.outcome = "returned" <=>
               /\ store[last.job].status \in {DONE, DONE_WITH_ERRORS}
               /\ store[last.job].result # None
        /\ last.outcome = "returned" => last.ret = csv[last.job].rows

\* C29: a Column that has been constructed has a name that is an identifier
\* ([a-zA-Z_][a-zA-Z0-9_]*) and is the normalized input name; when the
\* normalized input name is no identifier, the construction has raised
\* InvalidColumnNameError and there is no Column.
C29_FieldNameNormalization ==
    last.op = "Column" =>
        LET name == last.arg[1].name IN
        /\ last.outcome = "none" =>
               /\ IsIdentifier(last.ret[1])
               /\ last.ret[1] = processed_name(name)
        /\ ~IsIdentifier(processed_name(name)) =>
               /\ last.outcome = "InvalidColumnNameError"
               /\ last.ret = None

\* The payload has one of the defects that make a submission invalid: it is
\* no JSON list, an item is no column input, a name does not normalize to an
\* identifier, a description is too long, two names normalize to the same.
InvalidPayload(raw) ==
    LET n == Len(raw.items) IN
    \/ raw.kind # "list"
    \/ \E i \in 1 .. n :
           \/ ~ColumnInput(raw.items[i])
           \/ ~IsIdentifier(processed_name(raw.items[i].name))
           \/ raw.items[i].description > DescriptionLimit
    \/ \E i, k \in 1 .. n :
           /\ i # k
           /\ processed_name(raw.items[i].name)
                = processed_name(raw.items[k].name)

\* C28: a submission with an invalid columns payload is answered with an
\* error in the call itself; it creates no job and schedules no run.
C28_ValidationCreatesNoJob ==
    [][ ( last'.op = "POST /" /\ InvalidPayload(last'.arg[1]) )
        => /\ last'.outcome = "HTTPException"
           /\ store' = store
           /\ task' = task ]_vars

\* C30: in the aggregated table every key of the input has one row, and its
\* policy value is yes when some non-missing value of the key's rows is yes
\* in any letter case, else the first non-missing value of those rows, else
\* the text "Not specified".
C30_YesWins ==
    last.op = "_aggregate_regular_columns" =>
        LET df == last.arg[1]
            out == last.ret[1]
        IN
        /\ \A i \in 1 .. Len(df) :
               \E g \in 1 .. Len(out) : out[g].key = df[i].key
        /\ \A g \in 1 .. Len(out) :
               LET idx == { i \in 1 .. Len(df) :
                              df[i].key = out[g].key /\ df[i].val # NaN }
               IN
               IF \E i \in idx : lower(df[i].val) = Yes
               THEN out[g].val = Yes
               ELSE IF idx # {}
               THEN \E i \in idx :
                        /\ \A k \in idx : i <= k
                        /\ out[g].val = df[i].val
               ELSE out[g].val = NotSpecified

\* The rows of a key held no, yes, no, and the aggregated value is yes.
C30_Witness ==
    /\ last.op = "_aggregate_regular_columns"
    /\ \E k \in Range(GroupKeys) :
           /\ group_series(last.arg[1], k) = <<<<"n", "o">>, Yes, <<"n", "o">>>>
           /\ \E g \in 1 .. Len(last.ret[1]) :
                  /\ last.ret[1][g].key = k
                  /\ last.ret[1][g].val = Yes

(* C31, as stated: after _add_justification_columns, a group in which some *)
(* row evaluates to "yes" has as its justification the valid               *)
(* "<source_file>: <justification>" strings of the rows whose raw value is *)
(* exactly "yes", deduplicated, sorted and joined with " | ".              *)
JustGroup(df, k) ==
    LET InGroup(r) == r.key = k IN SelectSeq(df, InGroup)

IsYesGroup(group) ==
    \E i \in 1 .. Len(group) : series_val(group[i].val) = Yes

ValidTexts(group, rows) ==
    { formatted(group[i]) :
        i \in { m \in rows : /\ notna(group[m].just)
                             /\ is_valid_justification(group[m].just) } }

Joined(texts) ==
    IF texts = {} THEN JustificationNotProvided ELSE join(sorted(texts))

C31_ExactYesRows ==
    last.op = "_add_justification_columns" =>
        \A n \in 1 .. Len(last.ret[1]) :
            LET group == JustGroup(last.arg[1], last.ret[1][n].key)
                rows == { i \in 1 .. Len(group) : group[i].val = Yes }
            IN  IsYesGroup(group) =>
                    last.ret[1][n].just = Joined(ValidTexts(group, rows))

(* C31, amended: after _add_justification_columns, a group in which some   *)
(* row's value, lower-cased and stripped, is "yes" has as its              *)
(* justification the valid "<source_file>: <justification>" strings of     *)
(* exactly the rows whose lower-cased, stripped value is "yes",            *)
(* deduplicated, sorted by code point and joined with " | "; for values    *)
(* no, yes, no with justifications j1, j2, j3 from files a, b, c it is     *)
(* "b: j2".                                                                *)
C31_YesGroupJustification ==
    last.op = "_add_justification_columns" =>
        /\ \A n \in 1 .. Len(last.ret[1]) :
               LET group == JustGroup(last.arg[1], last.ret[1][n].key)
                   rows == { i \in 1 .. Len(group) :
                               series_val(group[i].val) = Yes }
               IN  IsYesGroup(group) =>
                       last.ret[1][n].just = Joined(ValidTexts(group, rows))
        /\ last.arg[1] = YesExample =>
               last.ret[1] = << [key |-> "BRA",
                                 just |-> <<"b", ":", " ", "j", "2">>] >>

\* A yes group with a capitalised "Yes" row and a "no" row, both justified:
\* only the "Yes" row is quoted.
C31_Witness ==
    /\ last.op = "_add_justification_columns"
    /\ last.arg[1] =
         << [key |-> "USA", val |-> <<"Y", "e", "s">>, just |-> <<"j">>,
             source_file |-> <<"b">>],
            [key |-> "USA", val |-> No, just |-> <<"j">>,
             source_file |-> <<"a">>] >>
    /\ last.ret[1] = << [key |-> "USA", just |-> <<"b", ":", " ", "j">>] >>

(* C32: after _add_justification_columns, a group whose values are all     *)
(* no-like ("no", "not specified", "" or "nan", in any case) has as its    *)
(* justification the texts of the rows valued "no" or "not specified"      *)
(* only, and no text of {"not specified", "not found", "nan", "none", ""}  *)
(* is quoted; for values no, not specified from files a, b with            *)
(* justifications "not found", "note" the value is "no" and the            *)
(* justification is "b: note".                                             *)
IsAllNoGroup(group) ==
    /\ \A i \in 1 .. Len(group) :
           series_val(group[i].val) \in
               {No, <<"not specified">>, <<>>, <<"n", "a", "n">>}
    /\ ~IsYesGroup(group)

C32_AllNoJustification ==
    last.op = "_add_justification_columns" =>
        /\ \A n \in 1 .. Len(last.ret[1]) :
               LET group == JustGroup(last.arg[1], last.ret[1][n].key)
                   rows == { i \in 1 .. Len(group) :
                               series_val(group[i].val)
                                   \in {No, <<"not specified">>} }
                   kept == { i \in rows :
                               /\ notna(group[i].just)
                               /\ lower(group[i].just) \notin
                                      {<<"not specified">>, <<"not found">>,
                                       <<"n", "a", "n">>,
                                       <<"n", "o", "n", "e">>, <<>>} }
               IN  IsAllNoGroup(group) =>
                       last.ret[1][n].just =
                           Joined({ formatted(group[i]) : i \in kept })
        /\ last.arg[1] = AllNoExample =>
               /\ apply_yes_wins_rule(
                      [i \in 1 .. Len(last.arg[1]) |-> last.arg[1][i].val]) = No
               /\ last.ret[1] =
                      << [key |-> "BRA",
                          just |-> <<"b", ":", " ", "n", "o", "t", "e">>] >>

\* The example table has been aggregated: file a's "not found" is dropped.
C32_Witness ==
    /\ last.op = "_add_justification_columns"
    /\ last.arg[1] = AllNoExample
    /\ last.ret[1] =
           << [key |-> "BRA", just |-> <<"b", ":", " ", "n", "o", "t", "e">>] >>

(* C33: after _add_justification_columns, a group that is neither a yes    *)
(* group nor an all-no-like group has a blank justification, and a yes     *)
(* group or all-no-like group with no valid formatted justification has    *)
(* the justification "Justification not provided".                         *)
QuotedRows(group) ==
    { i \in 1 .. Len(group) :
        /\ series_val(group[i].val) \in
               (IF IsYesGroup(group) THEN {Yes} ELSE {No, <<"not specified">>})
        /\ notna(group[i].just)
        /\ is_valid_justification(group[i].just) }

C33_JustificationFallbacks ==
    last.op = "_add_justification_columns" =>
        \A n \in 1 .. Len(last.ret[1]) :
            LET group == JustGroup(last.arg[1], last.ret[1][n].key)
            IN  /\ (~IsYesGroup(group) /\ ~IsAllNoGroup(group)) =>
                       last.ret[1][n].just = <<>>
                /\ ((IsYesGroup(group) \/ IsAllNoGroup(group))
                        /\ QuotedRows(group) = {}) =>
                       last.ret[1][n].just = <<"Justification not provided">>

\* An ambiguous group with a justified row is left blank, and a yes group
\* whose only row has no justification gets the fallback text.
C33_Witness ==
    /\ last.op = "_add_justification_columns"
    /\ last.arg[1] =
         << [key |-> "BRA", val |-> <<"x">>, just |-> <<"j">>,
             source_file |-> <<"a">>],
            [key |-> "USA", val |-> Yes, just |-> NaN,
             source_file |-> <<"a">>] >>
    /\ last.ret[1] =
         << [key |-> "BRA", just |-> <<>>],
            [key |-> "USA", just |-> <<"Justification not provided">>] >>

(* C34: after _safe_explode_countries, a record whose code cell and name   *)
(* cell are comma-separated lists of the same length has become one row    *)
(* per (code, name) pair, in order, with its other fields copied; a record *)
(* whose lists differ in length has no row; the rows keep the order of the *)
(* records.  "AUT, DEU" with "Austria, Germany" gives two rows, "AUT, DEU" *)
(* with "Austria" none.                                                    *)
ListOf(cell) ==
    CASE cell = NaN -> << <<"n", "a", "n">> >>
      [] cell = <<"AUT">> -> << <<"AUT">> >>
      [] cell \in { <<"AUT", ",", " ", "DEU">>, <<"AUT", ",", "DEU">>,
                    <<"AUT", " ", ",", "DEU">> } -> << <<"AUT">>, <<"DEU">> >>
      [] cell = <<"AUT", ",">> -> << <<"AUT">>, <<>> >>
      [] cell = <<"Austria">> -> << <<"Austria">> >>
      [] cell = <<"Austria", ",", " ", "Germany">> ->
             << <<"Austria">>, <<"Germany">> >>
      [] cell = <<"Austria", ",", "Germany", ",", " ", "Italy">> ->
             << <<"Austria">>, <<"Germany">>, <<"Italy">> >>

RowsOf(out, i) ==
    LET FromI(r) == r.index = i IN SelectSeq(out, FromI)

C34_RowExplosion ==
    last.op = "_safe_explode_countries" =>
        LET df == last.arg[1]
            out == last.ret[1]
        IN  /\ \A i \in 1 .. Len(df) :
                   LET codes == ListOf(df[i].country_alpha_3_code)
                       names == ListOf(df[i].country)
                   IN  IF Len(codes) = Len(names)
                       THEN RowsOf(out, i) =
                                [n \in 1 .. Len(codes) |->
                                    [ index |-> i,
                                      country_alpha_3_code |-> codes[n],
                                      country |-> names[n],
                                      other |-> df[i].other ]]
                       ELSE RowsOf(out, i) = <<>>
            /\ \A m, n \in 1 .. Len(out) : m < n => out[m].index <= out[n].index
            /\ \A n \in 1 .. Len(out) : out[n].index \in 1 .. Len(df)

\* "AUT, DEU" with "Austria, Germany" has given two rows and "AUT, DEU"
\* with "Austria" none.
C34_Witness ==
    /\ last.op = "_safe_explode_countries"
    /\ last.arg[1] =
         << [country_alpha_3_code |-> <<"AUT", ",", " ", "DEU">>,
             country |-> <<"Austria", ",", " ", "Germany">>,
             other |-> <<"a">>],
            [country_alpha_3_code |-> <<"AUT", ",", " ", "DEU">>,
             country |-> <<"Austria">>, other |-> <<"b">>] >>
    /\ last.ret[1] =
         << [index |-> 1, country_alpha_3_code |-> <<"AUT">>,
             country |-> <<"Austria">>, other |-> <<"a">>],
            [index |-> 1, country_alpha_3_code |-> <<"DEU">>,
             country |-> <<"Germany">>, other |-> <<"a">>] >>

(* C35: the record built for a failed document has an empty field value,   *)
(* an empty field justification and as its error the first 1000 characters *)
(* of the failure's message (the whole message when it is shorter); the    *)
(* record built for a successful document has an empty error.              *)
C35_FailureRecord ==
    last.op = "run" =>
        LET o == last.arg[1].o
            record == last.ret[1]
        IN  /\ record.source_file = last.arg[1].file_name
            /\ o.kind \in {"raise", "empty"} =>
                   /\ record.val = <<>>
                   /\ record.val_justification = <<>>
                   /\ Len(record.error) =
                          (IF Len(o.msg) <= 1000 THEN Len(o.msg) ELSE 1000)
                   /\ \A i \in 1 .. Len(record.error) :
                          record.error[i] = o.msg[i]
            /\ o.kind \in {"ok", "extra"} => record.error = <<>>

\* A failure with a message of 1001 characters has given a record whose
\* error has 1000.
C35_Witness ==
    /\ last.op = "run"
    /\ last.arg[1].o.kind = "raise"
    /\ Len(last.arg[1].o.msg) = 1001
    /\ Len(last.ret[1].error) = 1000
    /\ last.ret[1].val = <<>>

(* C36: a resume request answered at the resume endpoint for a job that is *)
(* RUNNING and whose run was interrupted is eventually                     *)
(* followed by a call of process_job for the job.                          *)
ResumeAccepted(j) ==
    /\ last.op = "POST /resume"
    /\ last.job = j
    /\ last.outcome = "returned"
    /\ j \in DOMAIN store
    /\ store[j].status = RUNNING
    /\ interrupted[j] # None
    /\ \A t \in Tasks : task[t].pc = "idle"

C36_ResumeRuns ==
    \A j \in JobIds :
        ResumeAccepted(j) ~> (last.op = "process_job" /\ last.job = j)

(* C37: a job that is DONE or DONE_WITH_ERRORS has files_processed equal   *)
(* to total_files, and its log holds exactly one record for every document *)
(* of the job: as many records as documents, and for every document a      *)
(* record with its name.                                                   *)
C37_CompleteLog ==
    \A j \in DOMAIN store :
        store[j].status \in {DONE, DONE_WITH_ERRORS} =>
            /\ store[j].files_processed = store[j].total_files
            /\ Len(csv[j].rows) = Len(store[j].files)
            /\ \A i \in 1 .. Len(store[j].files) :
                   \E n \in 1 .. Len(csv[j].rows) :
                       csv[j].rows[n].source_file = store[j].files[i]

(* C38: a job that is DONE or DONE_WITH_ERRORS has as its error_count the  *)
(* number of records of its log with a non-empty error, and is DONE        *)
(* exactly when its error_count is 0.                                      *)
NonEmptyErrors(rows) ==
    Cardinality({ n \in 1 .. Len(rows) : rows[n].error # <<>> })

C38_ErrorCount ==
    \A j \in DOMAIN store :
        store[j].status \in {DONE, DONE_WITH_ERRORS} =>
            /\ store[j].error_count = NonEmptyErrors(csv[j].rows)
            /\ store[j].status = DONE <=> store[j].error_count = 0

(* C39: at the retry endpoint a job never has more than one retry task     *)
(* (scheduled or running); a retry request is accepted only for a job that *)
(* is DONE_WITH_ERRORS and has no retry task, and a request made while the *)
(* job has a retry task is rejected and leaves the log, the job and the    *)
(* background tasks as they are.                                           *)
RetryTasks(j) ==
    Cardinality({ n \in 1 .. Len(background) :
                    background[n].kind = "retry" /\ background[n].job = j })
        + Cardinality({ t \in Tasks :
                          /\ task[t].pc = "await"
                          /\ task[t].kind = "retry"
                          /\ task[t].job = j })

RetryRequested(j) ==
    /\ last' # last
    /\ last'.job = j
    /\ last'.op \in {"POST /retry-failed-records",
                     "prepare_retry_and_get_cleaned_csv"}

RetryAccepted(j) ==
    /\ RetryRequested(j)
    /\ last'.op = "prepare_retry_and_get_cleaned_csv"
    /\ last'.outcome = "returned"

C39_OneRetryTask ==
    [][\A j \in JobIds :
          /\ RetryTasks(j)' <= 1
          /\ RetryAccepted(j) =>
                 /\ store[j].status = DONE_WITH_ERRORS
                 /\ RetryTasks(j) = 0
                 /\ RetryTasks(j)' = 1
          /\ (RetryRequested(j) /\ RetryTasks(j) >= 1) =>
                 /\ ~RetryAccepted(j)
                 /\ UNCHANGED <<csv, store, background, task>>]_vars

\* A second retry request has been rejected while the retry task of the
\* first waits for the inference capability.
C39_Witness ==
    /\ last.op = "POST /retry-failed-records"
    /\ last.outcome = "HTTPException"
    /\ last.job \in DOMAIN store
    /\ store[last.job].status = RUNNING
    /\ prepared[last.job] # None
    /\ \E t \in Tasks : /\ task[t].pc = "await"
                        /\ task[t].kind = "retry"
                        /\ task[t].job = last.job

(* C40: a step of a run, resume or retry of one job (a call for the job or *)
(* the resumption of one of its coroutines) leaves the log, the entry in   *)
(* the store and the coroutines of every other job as they are.            *)
CoroutineMoved(k) ==
    \E t \in Tasks : /\ task[t].pc = "await"
                     /\ task[t].job = k
                     /\ task'[t] # task[t]

StepOf(k) ==
    \/ CoroutineMoved(k)
    \/ /\ \A t \in Tasks : task[t].pc = "await" => task'[t] = task[t]
       /\ last'.job = k

C40_JobsIndependent ==
    [][\A k \in ConcurrentJobIds :
          ~StepOf(k) =>
              /\ csv'[k] = csv[k]
              /\ (k \in DOMAIN store) =>
                     (k \in DOMAIN store' /\ store'[k] = store[k])
              /\ (k \notin DOMAIN store) => (k \notin DOMAIN store')
              /\ \A t \in Tasks :
                     (task[t].pc = "await" /\ task[t].job = k) =>
                         task'[t] = task[t]]_vars

\* Job 2 has completed with a record in its log while a coroutine of job 1
\* waits for the inference capability, job 1 RUNNING with an empty log.
C40_Witness ==
    /\ DOMAIN store = {1, 2}
    /\ last.job = 2
    /\ last.outcome = "returned"
    /\ store[2].status \in {DONE, DONE_WITH_ERRORS}
    /\ Len(csv[2].rows) = 1
    /\ store[1].status = RUNNING
    /\ csv[1].rows = <<>>
    /\ \E t \in Tasks : task[t].pc = "await" /\ task[t].job = 1

=============================================================================
